---- MODULE Spec2Model ----
\* Duplicate-frame removal of licecap (src/licecap/duplicate_frame_removal.cpp):
\* the similarity metric CalculateSimilarity and the run collapser
\* RemoveDuplicateFrames, with the helpers they call.
\*
\* Numbers.  A similarity score and a threshold are doubles in the code.  A
\* double that is the quotient of two small integers, rounded once, is kept
\* here as that quotient [n, d, err] with err = 0: distinct quotients of the
\* sizes that occur lie far more than a rounding error apart, so their order
\* is the order of the doubles.  The fast path forms 1.0 - diff / total with
\* two roundings, which can leave it next to, but not on, the double nearest
\* to (total - diff) / total; err = -1 or 1 tells that the double lies below
\* or above that nearest double.  The roundings are computed on the binary
\* digits of the operands (section doubles).
EXTENDS Integers, Naturals, Sequences, FiniteSets, TLC

\* ------------------------------------------------------------------ bounds
\* Longest input sequence handed to RemoveDuplicateFrames.
MaxFrames == 3
\* Most entries added to an array in a sequence of array calls.
MaxEntries == 3

\* --------------------------------------------------------- program constants
kDuplicateKeepFirst == 0
kDuplicateKeepLast == 1
kDontAdjust == 0
kAverage == 1
kSum == 2
\* A null LICE_IBitmap pointer.
NULL == 0

\* ----------------------------------------------------------- integer helpers
Min2(a, b) == IF a < b THEN a ELSE b
Max2(a, b) == IF a > b THEN a ELSE b
SetMin(S) == CHOOSE m \in S : \A n \in S : m <= n
SetMax(S) == CHOOSE m \in S : \A n \in S : m >= n

\* C integer division: the quotient is truncated toward zero.
CDiv(a, b) ==
  IF b = 0 THEN 0
  ELSE IF b > 0
    THEN IF a >= 0 \/ a % b = 0 THEN a \div b ELSE (a \div b) + 1
  ELSE LET q == (IF a < 0 THEN -a ELSE a) \div (-b)
       IN IF a < 0 THEN q ELSE -q

\* The int of the code is 32 bits wide.  AddOverflows tells whether a + b
\* leaves the range of int, which is undefined behaviour; Add32 is the sum a
\* build that wraps around produces.
IntMax == 2147483647
AddOverflows(a, b) ==
  \/ b > 0 /\ a > IntMax - b
  \/ b < 0 /\ a < (-IntMax - 1) - b
Add32(a, b) ==
  IF b > 0 /\ a > IntMax - b THEN (a - IntMax - 1) + (b - IntMax - 1)
  ELSE IF b < 0 /\ a < (-IntMax - 1) - b THEN (a + IntMax + 1) + (b + IntMax + 1)
  ELSE a + b

\* The & and ^ of two bytes, bit by bit; w is the weight of the bit.
BitAnd(a, b) ==
  LET Bit(w) == ((a \div w) % 2) * ((b \div w) % 2)
  IN IF a = 0 \/ b = 0 THEN 0
     ELSE Bit(1) + 2 * Bit(2) + 4 * Bit(4) + 8 * Bit(8)
            + 16 * Bit(16) + 32 * Bit(32) + 64 * Bit(64) + 128 * Bit(128)

BitXor(a, b) ==
  LET Bit(w) == ((a \div w) + (b \div w)) % 2
  IN IF a = 0 THEN b
     ELSE IF b = 0 THEN a
     ELSE Bit(1) + 2 * Bit(2) + 4 * Bit(4) + 8 * Bit(8)
            + 16 * Bit(16) + 32 * Bit(32) + 64 * Bit(64) + 128 * Bit(128)

\* ------------------------------------------------------------------- pixels
\* A LICE_pixel is a 32-bit value packing four 8-bit channels.  It is kept
\* here as its four bytes, and the bitwise operators of the code act on each
\* byte: (p ^ q) & m is zero iff it is zero in every byte.
LICE_RGBA(r, g, b, a) ==
  [r |-> r % 256, g |-> g % 256, b |-> b % 256, a |-> a % 256]
LICE_GETB(v) == v.b
LICE_GETG(v) == v.g
LICE_GETR(v) == v.r
LICE_GETA(v) == v.a

PixAnd(p, q) ==
  [r |-> BitAnd(p.r, q.r), g |-> BitAnd(p.g, q.g),
   b |-> BitAnd(p.b, q.b), a |-> BitAnd(p.a, q.a)]
PixXor(p, q) ==
  [r |-> BitXor(p.r, q.r), g |-> BitXor(p.g, q.g),
   b |-> BitXor(p.b, q.b), a |-> BitXor(p.a, q.a)]
PixZero == LICE_RGBA(0, 0, 0, 0)

MaskRGB == LICE_RGBA(255, 255, 255, 0)
MaskFull == LICE_RGBA(255, 255, 255, 255)

\* ------------------------------------------------------------------ doubles
\* A double in [0, 1] as the sequence of its binary digits: digit 1 has
\* weight 1, digit k weight 2^-(k-1).  DoubleBits digits hold every double
\* the quotients of the model round to, with the digits that decide the
\* rounding; a double has MantissaBits significant digits.
MantissaBits == 53
DoubleBits == 72

\* r / d is expanded by long division in 4 groups of DoubleBits / 4 binary
\* digits, for 0 <= r < d < 2^(31 - DoubleBits / 4).
\* What is left of r / d after its first g groups of digits (times
\* d * 2^(g * DoubleBits / 4)).
Remainder(r, d, g) ==
  LET Shift(x) == (x * 2^(DoubleBits \div 4)) % d
  IN IF g = 0 THEN r
     ELSE IF g = 1 THEN Shift(r)
     ELSE IF g = 2 THEN Shift(Shift(r))
     ELSE IF g = 3 THEN Shift(Shift(Shift(r)))
     ELSE Shift(Shift(Shift(Shift(r))))

\* The first k digits after the point of r / d: digit j is a binary digit
\* of the group it lies in.
Expand(r, d, k) ==
  LET GroupBits == DoubleBits \div 4
  IN [j \in 1..k |->
        (((Remainder(r, d, (j - 1) \div GroupBits) * 2^GroupBits) \div d)
           \div 2^(GroupBits - 1 - ((j - 1) % GroupBits))) % 2]

\* n / d for 0 <= n <= d, exactly: its digits, and whether more follow.
Quotient(n, d) ==
  [bits |-> <<n \div d>> \o Expand(n % d, d, DoubleBits - 1),
   sticky |-> \/ Expand(n % d, d, DoubleBits)[DoubleBits] = 1
              \/ Remainder(n % d, d, 4) # 0]

Ones(b) == {k \in 1..DoubleBits : b[k] = 1}

\* b plus one unit of digit pos.
AddUlp(b, pos) ==
  LET j == SetMax({k \in 1..pos : b[k] = 0})
  IN [k \in 1..DoubleBits |->
        IF k = j THEN 1 ELSE IF k > j /\ k <= pos THEN 0 ELSE b[k]]

Truncate(b, last) == [k \in 1..DoubleBits |-> IF k <= last THEN b[k] ELSE 0]

\* Round to nearest, ties to even, keeping the digits up to digit last.
RoundAt(b, sticky, last) ==
  IF last >= DoubleBits THEN b
  ELSE IF b[last + 1] = 1
          /\ (sticky \/ b[last] = 1 \/ \E j \in (last + 2)..DoubleBits : b[j] = 1)
    THEN AddUlp(Truncate(b, last), last)
  ELSE Truncate(b, last)

\* The double nearest to the exact value v.
RoundToDouble(v) ==
  IF Ones(v.bits) = {} THEN v.bits
  ELSE RoundAt(v.bits, v.sticky, SetMin(Ones(v.bits)) + MantissaBits - 1)

\* 1 - b exactly, for 0 < b < 1 whose last digit 1 is digit p.
OneMinusAt(b, p) ==
  [k \in 1..DoubleBits |->
     IF k = 1 THEN 0 ELSE IF k < p THEN 1 - b[k] ELSE IF k = p THEN 1 ELSE 0]
OneMinus(b) ==
  IF Ones(b) = {} THEN [k \in 1..DoubleBits |-> IF k = 1 THEN 1 ELSE 0]
  ELSE IF b[1] = 1 THEN [k \in 1..DoubleBits |-> 0]
  ELSE OneMinusAt(b, SetMax(Ones(b)))

\* -1, 0 or 1 as a is below, equal to or above b.
CompareAt(a, b, D) == IF D = {} THEN 0 ELSE a[SetMin(D)] - b[SetMin(D)]
CompareBits(a, b) == CompareAt(a, b, {k \in 1..DoubleBits : a[k] # b[k]})

\* (double)n / (double)d, and 1.0 - q.
DoubleDiv(n, d) == RoundToDouble(Quotient(n, d))
DoubleOneMinus(q) == RoundToDouble([bits |-> OneMinus(q), sticky |-> FALSE])

\* Where 1.0 - (double)diff / (double)total lies with respect to the double
\* nearest to (total - diff) / total, for 0 <= diff <= total.
ComplementError(diff, total) ==
  CompareBits(DoubleOneMinus(DoubleDiv(diff, total)),
              DoubleDiv(total - diff, total))

\* ------------------------------------------------------------------ scores
\* [n, d, err]: the double nearest to n / d when err = 0, a double just below
\* it when err = -1, just above it when err = 1.
Score(n, d) == [n |-> n, d |-> d, err |-> 0]
One == Score(1, 1)
Zero == Score(0, 1)
ScoreLt(s, t) ==
  \/ s.n * t.d < t.n * s.d
  \/ s.n * t.d = t.n * s.d /\ s.err < t.err
ScoreLe(s, t) ==
  \/ s.n * t.d < t.n * s.d
  \/ s.n * t.d = t.n * s.d /\ s.err <= t.err
ScoreEq(s, t) == s.n * t.d = t.n * s.d /\ s.err = t.err

\* ------------------------------------------------------------------ rasters
\* A raster is [w, h, span, flipped, bits]; bits is the linear pixel buffer,
\* offset o of the code being bits[o + 1].
Raster(w, h, span, flipped, bits) ==
  [w |-> w, h |-> h, span |-> span, flipped |-> flipped, bits |-> bits]

Px0 == LICE_RGBA(0, 0, 0, 0)
PxB1 == LICE_RGBA(0, 0, 1, 0)
PxB2 == LICE_RGBA(0, 0, 2, 0)
PxA1 == LICE_RGBA(0, 0, 0, 1)
PxJunk == LICE_RGBA(7, 7, 7, 7)

\* The bitmaps a caller may hold, by handle (0 is the null pointer).
Bitmaps ==
  <<
    Raster(2, 2, 2, FALSE, <<Px0, Px0, Px0, Px0>>),
    Raster(2, 2, 2, FALSE, <<PxB2, Px0, Px0, Px0>>),
    Raster(2, 2, 2, FALSE, <<PxB2, Px0, Px0, PxB1>>),
    Raster(2, 2, 2, FALSE, <<PxA1, Px0, Px0, Px0>>),
    Raster(2, 2, 3, FALSE, <<Px0, Px0, PxJunk, Px0, Px0, PxJunk>>),
    Raster(2, 2, 2, TRUE, <<Px0, Px0, PxB2, Px0>>),
    Raster(1, 2, 1, FALSE, <<Px0, Px0>>),
    Raster(0, 0, 0, FALSE, << >>),
    Raster(3, 3, 3, FALSE, <<Px0, Px0, Px0, Px0, Px0, Px0, Px0, Px0, Px0>>),
    Raster(3, 3, 3, FALSE, <<Px0, Px0, Px0, Px0, PxB2, Px0, Px0, Px0, Px0>>),
    Raster(3, 3, 3, FALSE, <<PxB2, PxB2, PxB2, Px0, Px0, Px0, Px0, Px0, Px0>>),
    Raster(5, 1, 5, FALSE, <<Px0, Px0, Px0, Px0, Px0>>),
    Raster(5, 1, 5, FALSE, <<PxB2, Px0, Px0, PxB2, Px0>>)
  >>

BmpIds == 1..Len(Bitmaps)
Bmp(id) == Bitmaps[id]

getWidth(id) == Bmp(id).w
getHeight(id) == Bmp(id).h

\* The pixel the scan reads for logical position (xx, yy): row yy of a
\* flipped raster is stored at physical row h-1-yy.
ScanOffset(bm, xx, yy) ==
  IF bm.flipped
    THEN bm.span * (bm.h - 1) + yy * (-bm.span) + xx
    ELSE yy * bm.span + xx
ReadPixel(bm, xx, yy) == bm.bits[ScanOffset(bm, xx, yy) + 1]
ScanPixel(id, xx, yy) == ReadPixel(Bmp(id), xx, yy)

\* ------------------------------------------------------------------ regions
Rect(l, t, r, b) == [null |-> FALSE, left |-> l, top |-> t, right |-> r, bottom |-> b]
\* A null RECT pointer.
NoRoi == [null |-> TRUE, left |-> 0, top |-> 0, right |-> 0, bottom |-> 0]

clampi(v, lo, hi) == IF v < lo THEN lo ELSE (IF v > hi THEN hi ELSE v)

\* The region clamped into a w x h raster, right and bottom raised to left
\* and top where they fall below them.
ClampRoi(roi_in, w, h) ==
  IF roi_in.null
    THEN Rect(0, 0, w, h)
    ELSE LET l == clampi(roi_in.left, 0, w)
             t == clampi(roi_in.top, 0, h)
             r == clampi(roi_in.right, 0, w)
             bt == clampi(roi_in.bottom, 0, h)
         IN Rect(l, t, IF r < l THEN l ELSE r, IF bt < t THEN t ELSE bt)

compute_roi(a, b, roi_in) ==
  LET aw == IF a # NULL THEN getWidth(a) ELSE 0
      ah == IF a # NULL THEN getHeight(a) ELSE 0
      bw == IF b # NULL THEN getWidth(b) ELSE 0
      bh == IF b # NULL THEN getHeight(b) ELSE 0
  IN ClampRoi(roi_in, Min2(aw, bw), Min2(ah, bh))

\* ------------------------------------------------------------ configuration
Settings(thr, sx, sy, tol, mask, keep, adj, early) ==
  [similarity_threshold |-> thr, sample_step_x |-> sx, sample_step_y |-> sy,
   per_channel_tolerance |-> tol, channel_mask |-> mask, keep_mode |-> keep,
   delay_adjust_mode |-> adj, enable_early_out |-> early]

DefaultSettings ==
  Settings(Score(9, 10), 1, 1, 0, MaskRGB, kDuplicateKeepFirst, kSum, TRUE)

\* ------------------------------------------------------------ pixels_equal
\* |u - v|.  (The variant keeps the sign of the difference.)
AbsDiffSigned(u, v) == u - v
AbsDiff(u, v) == IF u - v < 0 THEN -(u - v) ELSE u - v

\* (The variant tests, under a tolerance, only the channels the mask selects
\* in all their bits.)
pixels_equalWholeChannel(p1, p2, cfg) ==
  IF cfg.per_channel_tolerance <= 0
    THEN PixAnd(PixXor(p1, p2), cfg.channel_mask) = PixZero
    ELSE LET tol == cfg.per_channel_tolerance
             m == cfg.channel_mask
         IN /\ (LICE_GETR(m) = 255
                  => AbsDiff(LICE_GETR(p1), LICE_GETR(p2)) <= tol)
            /\ (LICE_GETG(m) = 255
                  => AbsDiff(LICE_GETG(p1), LICE_GETG(p2)) <= tol)
            /\ (LICE_GETB(m) = 255
                  => AbsDiff(LICE_GETB(p1), LICE_GETB(p2)) <= tol)
            /\ (LICE_GETA(m) = 255
                  => AbsDiff(LICE_GETA(p1), LICE_GETA(p2)) <= tol)
\* (The variant keeps only the low four bits of the tolerance.)
pixels_equalNarrowTolerance(p1, p2, cfg) ==
  IF cfg.per_channel_tolerance <= 0
    THEN PixAnd(PixXor(p1, p2), cfg.channel_mask) = PixZero
    ELSE LET tol == cfg.per_channel_tolerance % 16
             m == cfg.channel_mask
         IN /\ (PixAnd(m, LICE_RGBA(255, 0, 0, 0)) # PixZero
                  => AbsDiff(LICE_GETR(p1), LICE_GETR(p2)) <= tol)
            /\ (PixAnd(m, LICE_RGBA(0, 255, 0, 0)) # PixZero
                  => AbsDiff(LICE_GETG(p1), LICE_GETG(p2)) <= tol)
            /\ (PixAnd(m, LICE_RGBA(0, 0, 255, 0)) # PixZero
                  => AbsDiff(LICE_GETB(p1), LICE_GETB(p2)) <= tol)
            /\ (PixAnd(m, LICE_RGBA(0, 0, 0, 255)) # PixZero
                  => AbsDiff(LICE_GETA(p1), LICE_GETA(p2)) <= tol)
pixels_equal(p1, p2, cfg) ==
  IF cfg.per_channel_tolerance <= 0
    THEN PixAnd(PixXor(p1, p2), cfg.channel_mask) = PixZero
    ELSE LET tol == cfg.per_channel_tolerance
             m == cfg.channel_mask
         IN /\ (PixAnd(m, LICE_RGBA(255, 0, 0, 0)) # PixZero
                  => AbsDiff(LICE_GETR(p1), LICE_GETR(p2)) <= tol)
            /\ (PixAnd(m, LICE_RGBA(0, 255, 0, 0)) # PixZero
                  => AbsDiff(LICE_GETG(p1), LICE_GETG(p2)) <= tol)
            /\ (PixAnd(m, LICE_RGBA(0, 0, 255, 0)) # PixZero
                  => AbsDiff(LICE_GETB(p1), LICE_GETB(p2)) <= tol)
            /\ (PixAnd(m, LICE_RGBA(0, 0, 0, 255)) # PixZero
                  => AbsDiff(LICE_GETA(p1), LICE_GETA(p2)) <= tol)

\* -------------------------------------------------------- LICE_BitmapCmpEx
\* The exact bitmap compare used by the fast path: ret = 0 when the rasters
\* are identical under the mask, else ret = 1 and coords = <<x, y, w, h>> is
\* the bounding box of the differing pixels.  The compare walks the storage
\* from getBits() with the row span as it is: row y is the physical row y,
\* whatever isFlipped() says.
StoredPixel(id, x, y) == Bmp(id).bits[y * Bmp(id).span + x + 1]

DiffPixels(a, b, mask) ==
  {p \in (0..(getWidth(a) - 1)) \X (0..(getHeight(a) - 1)) :
     PixAnd(PixXor(StoredPixel(a, p[1], p[2]), StoredPixel(b, p[1], p[2])), mask) # PixZero}

BBoxTight(minx, miny, maxx, maxy) ==
  <<minx, miny, maxx - minx + 1, maxy - miny + 1>>

\* The result for the set D of differing positions.
DiffResult(D) ==
  IF D = {}
    THEN [ret |-> 0, coords |-> <<0, 0, 0, 0>>]
    ELSE [ret |-> 1,
          coords |-> BBoxTight(SetMin({p[1] : p \in D}),
                               SetMin({p[2] : p \in D}),
                               SetMax({p[1] : p \in D}),
                               SetMax({p[2] : p \in D}))]

LICE_BitmapCmpEx(a, b, mask) ==
  IF a = NULL \/ b = NULL
    THEN [ret |-> 1, coords |-> <<0, 0, 0, 0>>]
  ELSE IF getWidth(a) # getWidth(b) \/ getHeight(a) # getHeight(b)
    THEN [ret |-> 1,
          coords |-> <<0, 0, Max2(getWidth(a), getWidth(b)),
                       Max2(getHeight(a), getHeight(b))>>]
  ELSE IF getWidth(a) <= 0 \/ getHeight(a) <= 0
    THEN [ret |-> 0, coords |-> <<0, 0, 0, 0>>]
  ELSE DiffResult(DiffPixels(a, b, mask))

\* ----------------------------------------------------- CalculateSimilarity
\* Number of iterations of  for (v = lo; v < hi; v += step)  with step > 0,
\* the iterations being those with lo + k * step < hi; whether the increment
\* that ends the loop overflows is IncrementOverflows below.
LoopCount(lo, hi, step) ==
  Cardinality({k \in 0..(hi - lo - 1) : k <= (hi - lo - 1) \div step})

\* 1.0 - (double)diff / (double)total, clamped to [0,1].  (The variant
\* leaves out the subtraction from 1.0.)
AreaRatioNoComplement(diff, total) ==
  IF total <= 0 THEN Zero
  ELSE IF diff < 0 THEN Score(0, total)
  ELSE IF diff > total THEN Score(total, total)
  ELSE Score(diff, total)
AreaRatio(diff, total) ==
  IF total <= 0 THEN Zero
  ELSE IF diff > total THEN Score(0, total)
  ELSE IF diff < 0 THEN Score(total, total)
  ELSE [n |-> total - diff, d |-> total, err |-> ComplementError(diff, total)]

\* The test that selects the fast path.
FastPathTaken(a, r, cfg) ==
  /\ cfg.per_channel_tolerance <= 0
  /\ cfg.sample_step_x = 1
  /\ cfg.sample_step_y = 1
  /\ r.left = 0
  /\ r.top = 0
  /\ r.right = getWidth(a)
  /\ r.bottom = getHeight(a)

\* The score for the compare result c of a raster of total pixels.
FastScore(c, total) ==
  IF c.ret = 0 THEN One
  ELSE AreaRatio(c.coords[3] * c.coords[4], total)

FastPath(a, b, cfg) ==
  FastScore(LICE_BitmapCmpEx(a, b, cfg.channel_mask),
            getWidth(a) * getHeight(a))

\* The early-out test made after a sample: the best score still reachable
\* is below the threshold.
EarlyOut(cfg, equal_count, processed, total_samples) ==
  /\ cfg.enable_early_out
  /\ ScoreLt(Score(equal_count + (total_samples - processed), total_samples),
             cfg.similarity_threshold)

\* The two nested sampling loops, sample k (row-major) being column k % nX
\* of row k \div nX of the sample grid; the result is the pair of counters
\* at CALC_FINISH.
RECURSIVE ScanLoop(_, _, _, _, _, _, _, _, _)
\* After sample k has been compared, eq being the count of equal samples.
AfterSample(a, b, cfg, r, sX, sY, total_samples, k, eq) ==
  IF EarlyOut(cfg, eq, k + 1, total_samples)
    THEN [equal_count |-> eq, processed |-> k + 1]
    ELSE ScanLoop(a, b, cfg, r, sX, sY, total_samples, k + 1, eq)

\* Whether the pixels at (xx, yy) are equal in a and b.
SampleEqual(a, b, cfg, xx, yy) ==
  pixels_equal(ScanPixel(a, xx, yy), ScanPixel(b, xx, yy), cfg)

ScanLoop(a, b, cfg, r, sX, sY, total_samples, k, equal_count) ==
  LET nX == LoopCount(r.left, r.right, sX)
      nY == LoopCount(r.top, r.bottom, sY)
  IN IF k >= nX * nY
       THEN [equal_count |-> equal_count, processed |-> k]
       ELSE AfterSample(a, b, cfg, r, sX, sY, total_samples, k,
                        IF SampleEqual(a, b, cfg, r.left + (k % nX) * sX,
                                       r.top + (k \div nX) * sY)
                          THEN equal_count + 1 ELSE equal_count)

\* equal_count / total_samples, clamped to [0,1].
FinalScore(equal_count, total_samples) ==
  IF equal_count < 0 THEN Score(0, total_samples)
  ELSE IF equal_count > total_samples THEN Score(total_samples, total_samples)
  ELSE Score(equal_count, total_samples)

\* CALC_FINISH, for the counters c the loops ended with.
Finish(c, total_samples) ==
  IF c.processed <= 0 THEN One
  ELSE FinalScore(c.equal_count, total_samples)

\* (extent + (step - 1)) / step in int arithmetic.
SampleCount(extent, step) == CDiv(Add32(extent, step - 1), step)

\* Two additions of the scan can leave the range of int, which is undefined:
\* rw + (sX - 1) of the sample total, and the increment xx += sX (yy += sY)
\* that ends a loop.
TotalOverflows(r, sX, sY) ==
  \/ AddOverflows(r.right - r.left, sX - 1)
  \/ AddOverflows(r.bottom - r.top, sY - 1)

\* The increment after the last iteration of  for (v = lo; v < hi; v += step).
LastIncrementOverflows(lo, hi, step) ==
  AddOverflows(lo + (LoopCount(lo, hi, step) - 1) * step, step)

\* For the counters c the loops ended with: an overflowing increment was
\* executed.  The goto of the early-out leaves before the increment.
IncrementOverflows(c, cfg, r, sX, sY, total_samples) ==
  LET nX == LoopCount(r.left, r.right, sX)
      nY == LoopCount(r.top, r.bottom, sY)
      left_by_goto == EarlyOut(cfg, c.equal_count, c.processed, total_samples)
  IN \/ /\ LastIncrementOverflows(r.left, r.right, sX)
        /\ (c.processed > nX \/ (c.processed = nX /\ ~left_by_goto))
     \/ /\ LastIncrementOverflows(r.top, r.bottom, sY)
        /\ c.processed = nX * nY
        /\ ~left_by_goto

\* What a call that executed undefined behaviour returns: no score.
Undefined == [ub |-> TRUE]

\* The manual scan: a score, or Undefined when one of the two additions
\* leaves the range of int.
GenericScan(a, b, r, cfg) ==
  LET sX == IF cfg.sample_step_x > 0 THEN cfg.sample_step_x ELSE 1
      sY == IF cfg.sample_step_y > 0 THEN cfg.sample_step_y ELSE 1
      roi_w_s == SampleCount(r.right - r.left, sX)
      roi_h_s == SampleCount(r.bottom - r.top, sY)
      total_samples == roi_w_s * roi_h_s
      c == ScanLoop(a, b, cfg, r, sX, sY, total_samples, 0, 0)
  IN IF TotalOverflows(r, sX, sY) THEN Undefined
     ELSE IF total_samples <= 0 THEN One
     ELSE IF IncrementOverflows(c, cfg, r, sX, sY, total_samples)
       THEN Undefined
     ELSE Finish(c, total_samples)

\* The comparison over the clamped region r.  (The variant scores an empty
\* region 0.0.)
CompareRegionEmptyZero(a, b, r, cfg) ==
  LET rw == r.right - r.left
      rh == r.bottom - r.top
  IN IF rw <= 0 \/ rh <= 0 THEN Zero
     ELSE IF FastPathTaken(a, r, cfg) THEN FastPath(a, b, cfg)
     ELSE GenericScan(a, b, r, cfg)
CompareRegion(a, b, r, cfg) ==
  LET rw == r.right - r.left
      rh == r.bottom - r.top
  IN IF rw <= 0 \/ rh <= 0 THEN One
     ELSE IF FastPathTaken(a, r, cfg) THEN FastPath(a, b, cfg)
     ELSE GenericScan(a, b, r, cfg)

CalculateSimilarityErrCode(a, b, roi, cfg) ==
  IF a = NULL \/ b = NULL THEN Score(-1, 1)
  ELSE IF getWidth(a) # getWidth(b) \/ getHeight(a) # getHeight(b) THEN Score(-1, 1)
  ELSE CompareRegion(a, b, compute_roi(a, b, roi), cfg)
\* (The variant tests the region before the dimensions.)
CalculateSimilarityRegionFirst(a, b, roi, cfg) ==
  IF a = NULL \/ b = NULL THEN Zero
  ELSE IF compute_roi(a, b, roi).right - compute_roi(a, b, roi).left <= 0
          \/ compute_roi(a, b, roi).bottom - compute_roi(a, b, roi).top <= 0
    THEN One
  ELSE IF getWidth(a) # getWidth(b) \/ getHeight(a) # getHeight(b) THEN Zero
  ELSE CompareRegion(a, b, compute_roi(a, b, roi), cfg)
CalculateSimilarity(a, b, roi, cfg) ==
  IF a = NULL \/ b = NULL THEN Zero
  ELSE IF getWidth(a) # getWidth(b) \/ getHeight(a) # getHeight(b) THEN Zero
  ELSE CompareRegion(a, b, compute_roi(a, b, roi), cfg)

\* ------------------------------------------------------ undefined behaviour
\* CalculateSimilarity above is the value of a call whose int arithmetic stays
\* in range, and Undefined for every other call.  What a build does with the
\* latter is told by the outcomes of the call, records [ub, crash, sim]: ub
\* tells that undefined behaviour was executed, crash that the call trapped
\* instead of returning sim.
Outcome(ub, crash, sim) == [ub |-> ub, crash |-> crash, sim |-> sim]

\* The call gets to the manual scan over the clamped region r.
ReachesScan(a, b, r, cfg) ==
  /\ a # NULL
  /\ b # NULL
  /\ getWidth(a) = getWidth(b)
  /\ getHeight(a) = getHeight(b)
  /\ r.right - r.left > 0
  /\ r.bottom - r.top > 0
  /\ ~FastPathTaken(a, r, cfg)

\* After an overflowing increment the loop may end, trap, or go on with
\* samples read outside the rasters, each of which may count as equal.
AfterOverflow(c, total_samples) ==
  {Outcome(TRUE, TRUE, Zero)}
    \cup {Outcome(TRUE, FALSE, FinalScore(k, total_samples)) :
            k \in c.equal_count..Max2(total_samples, c.equal_count)}

LoopOutcomes(c, cfg, r, sX, sY, total_samples, total_overflowed) ==
  IF IncrementOverflows(c, cfg, r, sX, sY, total_samples)
    THEN AfterOverflow(c, total_samples)
  ELSE IF total_overflowed
    THEN {Outcome(TRUE, TRUE, Zero),
          Outcome(TRUE, FALSE, Finish(c, total_samples))}
  ELSE {Outcome(FALSE, FALSE, Finish(c, total_samples))}

\* The outcomes from the test of the sample total on.  When the total
\* overflowed into a value <= 0 the build may trap, return 1.0 at the test,
\* or, having dropped the test because rw, rh, sX and sY are positive, scan
\* and divide by that total: equal_count / total_samples <= 0 is 0.0.
SetupOutcomes(a, b, r, cfg, sX, sY, total_samples, total_overflowed) ==
  IF total_samples <= 0
    THEN IF total_overflowed
           THEN {Outcome(TRUE, TRUE, Zero), Outcome(TRUE, FALSE, One),
                 Outcome(TRUE, FALSE, Zero)}
           ELSE {Outcome(FALSE, FALSE, One)}
    ELSE LoopOutcomes(ScanLoop(a, b, cfg, r, sX, sY, total_samples, 0, 0),
                      cfg, r, sX, sY, total_samples, total_overflowed)

StepOf(v) == IF v > 0 THEN v ELSE 1

ScanOutcomes(a, b, r, cfg) ==
  SetupOutcomes(a, b, r, cfg,
                StepOf(cfg.sample_step_x), StepOf(cfg.sample_step_y),
                SampleCount(r.right - r.left, StepOf(cfg.sample_step_x))
                  * SampleCount(r.bottom - r.top, StepOf(cfg.sample_step_y)),
                TotalOverflows(r, StepOf(cfg.sample_step_x),
                               StepOf(cfg.sample_step_y)))

RegionOutcomes(a, b, r, roi, cfg) ==
  IF ReachesScan(a, b, r, cfg)
    THEN ScanOutcomes(a, b, r, cfg)
    ELSE {Outcome(FALSE, FALSE, CalculateSimilarity(a, b, roi, cfg))}

\* Every outcome of CalculateSimilarity(a, b, roi, cfg).
SimilarityOutcomes(a, b, roi, cfg) ==
  RegionOutcomes(a, b, compute_roi(a, b, roi), roi, cfg)

\* --------------------------------------------------------- IsDuplicateFrame
\* A FrameInfo; bmp is a bitmap handle, (x, y, w, h) the frame's region.
FrameInfo(index, bmp, delay_ms, x, y, w, h) ==
  [index |-> index, bmp |-> bmp, delay_ms |-> delay_ms,
   x |-> x, y |-> y, w |-> w, h |-> h]

\* The region IsDuplicateFrame compares.  (The variant looks at the previous
\* frame's region first.)
FrameRoiPrevFirst(prev, curr) ==
  IF prev.w > 0 /\ prev.h > 0
    THEN Rect(prev.x, prev.y, prev.x + prev.w, prev.y + prev.h)
  ELSE IF curr.w > 0 /\ curr.h > 0
    THEN Rect(curr.x, curr.y, curr.x + curr.w, curr.y + curr.h)
  ELSE Rect(0, 0, Min2(getWidth(prev.bmp), getWidth(curr.bmp)),
            Min2(getHeight(prev.bmp), getHeight(curr.bmp)))
FrameRoi(prev, curr) ==
  IF curr.w > 0 /\ curr.h > 0
    THEN Rect(curr.x, curr.y, curr.x + curr.w, curr.y + curr.h)
  ELSE IF prev.w > 0 /\ prev.h > 0
    THEN Rect(prev.x, prev.y, prev.x + prev.w, prev.y + prev.h)
  ELSE Rect(0, 0, Min2(getWidth(prev.bmp), getWidth(curr.bmp)),
            Min2(getHeight(prev.bmp), getHeight(curr.bmp)))

\* [dup, sim]: the returned decision and the value written to out_similarity;
\* Undefined when the similarity call executed undefined behaviour.
\* return sim >= cfg->similarity_threshold.  (The variant tests sim > threshold.)
DecisionStrict(cfg, sim) ==
  IF sim = Undefined THEN Undefined
  ELSE [dup |-> ScoreLt(cfg.similarity_threshold, sim), sim |-> sim]
Decision(cfg, sim) ==
  IF sim = Undefined THEN Undefined
  ELSE [dup |-> ScoreLe(cfg.similarity_threshold, sim), sim |-> sim]

\* (The variant leaves the presence of the rasters to CalculateSimilarity.)
IsDuplicateFrameUnguarded(prev, curr, cfg) ==
  Decision(cfg, CalculateSimilarity(prev.bmp, curr.bmp,
                                    FrameRoi(prev, curr), cfg))
IsDuplicateFrame(prev, curr, cfg) ==
  IF prev.bmp = NULL \/ curr.bmp = NULL
    THEN [dup |-> FALSE, sim |-> Zero]
    ELSE Decision(cfg, CalculateSimilarity(prev.bmp, curr.bmp,
                                           FrameRoi(prev, curr), cfg))

\* Every outcome of IsDuplicateFrame(prev, curr, cfg): [ub, crash, dup, sim].
DecisionOutcome(o, cfg) ==
  [ub |-> o.ub, crash |-> o.crash, sim |-> o.sim,
   dup |-> ~o.crash /\ Decision(cfg, o.sim).dup]

DefinedDecision(d) ==
  [ub |-> FALSE, crash |-> FALSE, sim |-> d.sim, dup |-> d.dup]

DuplicateOutcomes(prev, curr, cfg) ==
  IF prev.bmp = NULL \/ curr.bmp = NULL
    THEN {DefinedDecision(IsDuplicateFrame(prev, curr, cfg))}
    ELSE {DecisionOutcome(o, cfg) :
            o \in SimilarityOutcomes(prev.bmp, curr.bmp,
                                     FrameRoi(prev, curr), cfg)}

\* --------------------------------------------------------- dynamic arrays
\* A FrameArray or IndexArray as the struct it is: buf is the number of
\* entries the storage pointer has room for (NULL for a null pointer), items
\* the entries stored in its first count slots.  ok tells whether the
\* allocation the call makes, if it makes one, succeeds.
ArrayStruct(buf, count, capacity, items) ==
  [buf |-> buf, count |-> count, capacity |-> capacity, items |-> items]

Array_Init(initial_capacity, ok) ==
  ArrayStruct(IF initial_capacity > 0 /\ ok THEN initial_capacity ELSE NULL,
              0, initial_capacity, << >>)
FrameArray_Init(initial_capacity, ok) == Array_Init(initial_capacity, ok)
IndexArray_Init(initial_capacity, ok) == Array_Init(initial_capacity, ok)

\* The struct after the growth step of Add, when the step does not return.
Grown(arr, new_capacity) ==
  IF arr.count >= arr.capacity
    THEN [arr EXCEPT !.buf = new_capacity, !.capacity = new_capacity]
    ELSE arr

\* arr->frames[arr->count] = *frame; arr->count++.  Storing through a null
\* pointer or past the end of the storage is undefined; the call then
\* traps (fault).
Store(arr, entry) ==
  IF arr.buf = NULL \/ arr.count >= arr.buf
    THEN [arr |-> arr, fault |-> TRUE]
    ELSE [arr |-> [arr EXCEPT !.items = Append(@, entry), !.count = @ + 1],
          fault |-> FALSE]

Array_Add(arr, entry, ok) ==
  IF arr.count >= arr.capacity /\ ~ok
    THEN [arr |-> arr, fault |-> FALSE]
    ELSE Store(Grown(arr, IF arr.capacity = 0 THEN 16 ELSE arr.capacity * 2),
               entry)
FrameArray_Add(arr, frame, ok) == Array_Add(arr, frame, ok)
IndexArray_Add(arr, index, ok) == Array_Add(arr, index, ok)

Array_Free(arr) == ArrayStruct(NULL, 0, 0, << >>)
FrameArray_Free(arr) == Array_Free(arr)
IndexArray_Free(arr) == Array_Free(arr)

ZeroedArray == ArrayStruct(NULL, 0, 0, << >>)

\* ---------------------------------------------------- RemoveDuplicateFrames
\* The delay a run's representative is emitted with (the rule applied at
\* both flushes).
FlushDelay(pending, group_count, group_delay_sum, cfg) ==
  IF cfg.delay_adjust_mode = kSum THEN group_delay_sum
  ELSE IF cfg.delay_adjust_mode = kAverage /\ group_count > 0
    THEN CDiv(group_delay_sum, group_count)
  ELSE pending.delay_ms

\* The locals of the pass, output and removed_indices being the structs the
\* caller handed in.  Beside the variables of the code they hold its
\* history: pending_pos is the input position pending was copied from,
\* run_start the position of the first frame of the current run, runs[k] =
\* <<first, last>> the positions of the k-th run flushed and kept_pos[k] the
\* position of the frame flushed for it (the k-th FrameArray_Add, whether or
\* not it stored its frame); and fault tells what went wrong so far:
\*   "none"           nothing;
\*   "lost"           an Add returned without storing its entry, its realloc
\*                    having failed;
\*   "wrapped"        group_delay_sum left the range of int (undefined) and
\*                    the build wrapped it around;
\*   "lost_wrapped"   both of these;
\*   "overflow_trap"  the build trapped on that overflow;
\*   "null_store"     an Add stored through the null pointer a failed malloc
\*                    left in the struct (undefined; the call traps).
\* After a trap the pass makes no further step.
Crashed(s) == s.fault \in {"overflow_trap", "null_store"}
Noted(old, new) ==
  IF old = "none" \/ old = new THEN new ELSE "lost_wrapped"

StartRun(s, cur, pos) ==
  [s EXCEPT !.pending = cur, !.pending_pos = pos, !.run_start = pos,
            !.group_count = 1, !.group_delay_sum = cur.delay_ms]

\* The arrays initialised and the first run started.  want tells which of
\* the two array pointers the caller passes (want.output: output is
\* non-null, want.removed: removed_indices is); ok_frames and ok_indices
\* tell whether the malloc of each Init succeeds.  input is the
\* caller's array of frames, which the pass reads through a const pointer;
\* pending is a copy of its first frame.
PassStart(input, want, ok_frames, ok_indices) ==
  [input |-> input,
   i |-> 1, pending |-> input[1], pending_pos |-> 0, run_start |-> 0,
   group_count |-> 1, group_delay_sum |-> input[1].delay_ms,
   removed |-> 0, sim |-> Zero,
   output |-> IF want.output
                THEN FrameArray_Init(Len(input) \div 2, ok_frames)
                ELSE ZeroedArray,
   kept_pos |-> << >>, runs |-> << >>,
   removed_indices |-> IF want.removed
                         THEN IndexArray_Init(Len(input) \div 4, ok_indices)
                         ELSE ZeroedArray,
   fault |-> "none"]

\* ++group_count; group_delay_sum += cur->delay_ms.  trap tells whether the
\* build traps on int overflow.
Accumulate(s, cur, trap) ==
  [s EXCEPT !.group_count = @ + 1,
            !.group_delay_sum = Add32(@, cur.delay_ms),
            !.fault = IF ~AddOverflows(s.group_delay_sum, cur.delay_ms) THEN @
                      ELSE IF trap THEN "overflow_trap"
                      ELSE Noted(@, "wrapped")]

\* if (removed_indices) IndexArray_Add(removed_indices, index); r is what
\* the Add returned.
Recorded(s, r) ==
  IF r.fault THEN [s EXCEPT !.fault = "null_store"]
  ELSE IF r.arr.count = s.removed_indices.count
    THEN [s EXCEPT !.fault = Noted(@, "lost")]
  ELSE [s EXCEPT !.removed_indices = r.arr]
Record(s, want, index, ok) ==
  IF ~want.removed THEN s
  ELSE Recorded(s, IndexArray_Add(s.removed_indices, index, ok))

\* ++removed and the Add, for the locals t the accumulation left.
Remove(t, want, index, ok) ==
  IF Crashed(t) THEN t
  ELSE Record([t EXCEPT !.removed = @ + 1], want, index, ok)

\* is_dup branch, keep_mode = kDuplicateKeepFirst.  (The variants leave
\* removed as it is, or go on comparing with the current frame.)
ExtendKeepFirstCompareLast(s, cur, want, ok, trap) ==
  Remove([Accumulate(s, cur, trap) EXCEPT !.pending.bmp = cur.bmp],
         want, s.i, ok)
ExtendKeepFirstUncounted(s, cur, want, ok, trap) ==
  Record(Accumulate(s, cur, trap), want, s.i, ok)
ExtendKeepFirst(s, cur, want, ok, trap) ==
  Remove(Accumulate(s, cur, trap), want, s.i, ok)

\* is_dup branch, keep last.
ExtendKeepLast(s, cur, want, ok, trap) ==
  Remove([Accumulate(s, cur, trap) EXCEPT !.pending = cur,
                                          !.pending_pos = s.i],
         want, s.i - 1, ok)

\* pending.delay_ms set as the delay mode tells: pending is the local copy,
\* the frame of the input it was copied from stays as it is.  (The variant
\* adjusts the input frame as well, as a pending that pointed into the input
\* would.)
AdjustedInPlace(s, cfg) ==
  [s EXCEPT !.pending.delay_ms = FlushDelay(s.pending, s.group_count,
                                            s.group_delay_sum, cfg),
            !.input[s.pending_pos + 1].delay_ms =
               FlushDelay(s.pending, s.group_count, s.group_delay_sum, cfg)]
Adjusted(s, cfg) ==
  [s EXCEPT !.pending.delay_ms = FlushDelay(s.pending, s.group_count,
                                            s.group_delay_sum, cfg)]

\* if (output) FrameArray_Add(output, &pending); r is what the Add
\* returned.  The history takes the run and the frame flushed for it.
Emitted(s, r) ==
  IF r.fault THEN [s EXCEPT !.fault = "null_store"]
  ELSE [s EXCEPT !.output = r.arr,
                 !.fault = IF r.arr.count = s.output.count
                             THEN Noted(@, "lost") ELSE @,
                 !.kept_pos = Append(@, s.pending_pos),
                 !.runs = Append(@, <<s.run_start, s.i - 1>>)]
Emit(s, want, ok) ==
  IF want.output THEN Emitted(s, FrameArray_Add(s.output, s.pending, ok))
  ELSE [s EXCEPT !.kept_pos = Append(@, s.pending_pos),
                 !.runs = Append(@, <<s.run_start, s.i - 1>>)]

\* Append pending, with its delay adjusted, to the output.
Flush(s, cfg, want, ok) == Emit(Adjusted(s, cfg), want, ok)

\* Start new run from current, for the locals f the flush left.
AfterFlush(f, cur, pos) == IF Crashed(f) THEN f ELSE StartRun(f, cur, pos)

\* One iteration of the for loop, on input[i] (0-based i).
\* The iteration on frame cur once IsDuplicateFrame has returned is_dup and
\* stored the score in the locals t.
Branch(t, cur, is_dup, cfg, want, ok, trap) ==
  IF is_dup
    THEN IF cfg.keep_mode = kDuplicateKeepFirst
           THEN ExtendKeepFirst(t, cur, want, ok, trap)
           ELSE ExtendKeepLast(t, cur, want, ok, trap)
    ELSE AfterFlush(Flush(t, cfg, want, ok), cur, t.i)

Advance(n) == IF Crashed(n) THEN n ELSE [n EXCEPT !.i = @ + 1]

Iterate(s, cur, d, cfg, want, ok, trap) ==
  Advance(Branch([s EXCEPT !.sim = d.sim], cur, d.dup, cfg, want, ok, trap))

LoopBody(s, cfg, want, ok, trap) ==
  Iterate(s, s.input[s.i + 1],
          IsDuplicateFrame(s.pending, s.input[s.i + 1], cfg), cfg, want,
          ok, trap)

\* What a call gets from its environment: whether the malloc of each Init
\* succeeds, whether the allocation made by the Add of iteration k succeeds
\* (the final flush being iteration input_count), and whether the build
\* traps on int overflow.
Env(frames, indices, adds, trap) ==
  [frames |-> frames, indices |-> indices, adds |-> adds, trap |-> trap]
\* Every allocation succeeds; int overflow wraps around.
Reliable == Env(TRUE, TRUE, [k \in 1..MaxFrames |-> TRUE], FALSE)

RECURSIVE RunLoop(_, _, _, _)
RunLoop(s, cfg, want, env) ==
  IF Crashed(s) \/ s.i >= Len(s.input) THEN s
  ELSE RunLoop(LoopBody(s, cfg, want, env.adds[s.i], env.trap),
               cfg, want, env)

\* Flush the final run, for the locals f the loop left.
LastFlush(f, cfg, want, ok) ==
  IF Crashed(f) THEN f ELSE Flush(f, cfg, want, ok)

\* The whole call: [ret, output, removed_indices, fault], output and
\* removed_indices being the entries of the two arrays on return, held what
\* they were on entry: an empty input returns before the arrays are touched.
Result(f) ==
  [ret |-> f.removed, output |-> f.output.items,
   removed_indices |-> f.removed_indices.items, fault |-> f.fault]

RemoveDuplicateFrames(input, cfg, want, env, held) ==
  IF Len(input) = 0
    THEN [ret |-> 0, output |-> held.output,
          removed_indices |-> held.removed_indices, fault |-> "none"]
    ELSE Result(LastFlush(RunLoop(PassStart(input, want, env.frames,
                                            env.indices),
                                  cfg, want, env),
                          cfg, want, env.adds[Len(input)]))

\* ==================================================================== state
VARIABLES
  input,            \* the frames handed to RemoveDuplicateFrames
  cfg,              \* the settings of the call
  want_output,      \* output is non-null
  want_removed,     \* removed_indices is non-null
  pc,               \* "idle", "call", "loop", "done", "crashed", "pixel",
                    \* "compared" or "array"
  i, pending, group_count, group_delay_sum, removed, sim,
  output, removed_indices,    \* the locals of the pass, and the entries of
                              \* the output and removed-index arrays
  output_mem, removed_mem,    \* [buf, capacity] of the two array structs
  fault,            \* what went wrong in the pass so far
  pending_pos, run_start, kept_pos, runs,   \* their history
  ret,              \* the value RemoveDuplicateFrames returned
  call_a, call_b, call_roi,   \* arguments of a direct similarity call
  call_op,          \* "none", or the function that was called
  call_sim, call_dup,         \* its results
  px1, px2,         \* the pixels of a direct pixels_equal call
  px_eq,            \* its result
  arr_kind,         \* "none", "FrameArray" or "IndexArray"
  arr,              \* the array struct of a sequence of array calls
  arr_old,          \* the struct before the last call
  arr_op            \* how the last call ended

vars == <<input, cfg, want_output, want_removed, pc, i, pending, group_count,
          group_delay_sum, removed, sim, output, removed_indices,
          output_mem, removed_mem, fault,
          pending_pos, run_start, kept_pos, runs,
          ret, call_a, call_b, call_roi, call_op, call_sim, call_dup,
          px1, px2, px_eq, arr_kind, arr, arr_old, arr_op>>

passVars == <<i, pending, group_count, group_delay_sum, removed, sim, output,
              removed_indices, output_mem, removed_mem, fault,
              pending_pos, run_start, kept_pos, runs>>
callVars == <<call_a, call_b, call_roi, call_op, call_sim, call_dup>>
pixVars == <<px1, px2, px_eq>>
arrVars == <<arr_kind, arr, arr_old, arr_op>>

\* The struct whose entries are items and whose storage is mem.
Mem(buf, capacity) == [buf |-> buf, capacity |-> capacity]
StructOf(items, mem) == ArrayStruct(mem.buf, Len(items), mem.capacity, items)
MemOf(a) == Mem(a.buf, a.capacity)

\* The two array pointers of the call.
Wants == [output |-> want_output, removed |-> want_removed]

Locals ==
  [input |-> input,
   i |-> i, pending |-> pending, pending_pos |-> pending_pos,
   run_start |-> run_start,
   group_count |-> group_count, group_delay_sum |-> group_delay_sum,
   removed |-> removed, sim |-> sim,
   output |-> StructOf(output, output_mem),
   kept_pos |-> kept_pos, runs |-> runs,
   removed_indices |-> StructOf(removed_indices, removed_mem),
   fault |-> fault]

SetLocals(n) ==
  /\ input' = n.input
  /\ i' = n.i
  /\ pending' = n.pending
  /\ pending_pos' = n.pending_pos
  /\ run_start' = n.run_start
  /\ runs' = n.runs
  /\ group_count' = n.group_count
  /\ group_delay_sum' = n.group_delay_sum
  /\ removed' = n.removed
  /\ sim' = n.sim
  /\ output' = n.output.items
  /\ output_mem' = MemOf(n.output)
  /\ kept_pos' = n.kept_pos
  /\ removed_indices' = n.removed_indices.items
  /\ removed_mem' = MemOf(n.removed_indices)
  /\ fault' = n.fault

\* ----------------------------------------------------------- input domains
Half == Score(1, 2)

\* The frames a captured sequence is made of: <<bmp, delay_ms, x, y, w, h>>.
FramePool ==
  { <<1, 2, 0, 0, 0, 0>>, <<1, -3, 1, 1, 1, 1>>,
    <<2, 5, 0, 0, 0, 0>>, <<3, 2, 0, 0, 0, 0>>,
    <<NULL, 2, 0, 0, 0, 0>>, <<7, 5, 0, 0, 0, 0>>,
    <<1, IntMax, 0, 0, 0, 0>> }

MakeFrame(index, t) == FrameInfo(index, t[1], t[2], t[3], t[4], t[5], t[6])

Inputs ==
  UNION { { [k \in 1..n |-> MakeFrame(k - 1, f[k])] : f \in [1..n -> FramePool] }
          : n \in 0..MaxFrames }

\* The settings a pass is run with, whether it is given a removed-index
\* array and whether it is given an output array: every keep mode and delay mode under the approximate fast path, and
\* both keep modes under the exact fast path, the tolerant scan with early-out
\* and threshold 0.
KeepModes == {kDuplicateKeepFirst, kDuplicateKeepLast}
PassCalls ==
  { <<Settings(Half, 1, 1, 0, MaskRGB, k, m, TRUE), TRUE, TRUE>> :
      k \in KeepModes, m \in {kDontAdjust, kAverage, kSum} }
  \cup
  { <<Settings(p[1], p[2], p[3], p[4], p[5], km[1], km[2], TRUE), TRUE, TRUE>> :
      p \in { <<One, 1, 1, 0, MaskFull>>,
              <<One, 1, 1, 1, MaskRGB>>,
              <<Zero, 2, 2, 0, MaskRGB>> },
      km \in { <<kDuplicateKeepFirst, kSum>>, <<kDuplicateKeepLast, kAverage>> } }
  \cup
  { <<Settings(Half, 1, 1, 0, MaskRGB, k, kSum, TRUE), FALSE, TRUE>> :
      k \in KeepModes }
  \cup
  { <<Settings(Half, 1, 1, 0, MaskRGB, k, kSum, TRUE), r, FALSE>> :
      k \in KeepModes, r \in BOOLEAN }

\* The settings of a direct call: <<step x, step y, tolerance, mask>> under
\* every threshold, with and without early-out.
CallThresholds == {Zero, Score(1, 5), Score(9, 10), One}
CallScans ==
  { <<1, 1, 0, MaskRGB>>, <<1, 1, 0, MaskFull>>, <<1, 1, 1, MaskRGB>>,
    <<2, 2, 0, MaskFull>>, <<0, 1, 0, MaskFull>>, <<1, 2, 1, MaskFull>>,
    <<0, -5, 0, MaskRGB>>, <<3, 3, 0, MaskFull>>,
    <<IntMax, 1, 0, MaskFull>>, <<IntMax, IntMax, 0, MaskFull>> }
CallCfgs ==
  { Settings(t, c[1], c[2], c[3], c[4], kDuplicateKeepFirst, kSum, e) :
      t \in CallThresholds, c \in CallScans, e \in BOOLEAN }

CallRois ==
  { NoRoi, Rect(0, 0, 2, 2), Rect(1, 0, 2, 2), Rect(1, 1, 1, 1),
    Rect(2, 2, 0, 0), Rect(-1, -1, 1, 1), Rect(0, 1, 5, 5),
    Rect(1, 0, 1, 2) }

Handles == {NULL} \cup BmpIds

NoFrame == FrameInfo(0, NULL, 0, 0, 0, 0, 0)

\* What the caller's output array and removed-index array hold before the
\* call: RemoveDuplicateFrames initialises them itself, so the caller hands
\* them over as they are, empty or not.
CallerFrames == { << >>, <<FrameInfo(0, 1, 2, 0, 0, 0, 0)>> }
CallerIndices == { << >>, <<0>> }
\* The storage of a caller's array that holds items.
CallerMem(items) ==
  Mem(IF Len(items) = 0 THEN NULL ELSE Len(items), Len(items))
NoMem == Mem(NULL, 0)

PassIdle ==
  /\ i = 0
  /\ pending = NoFrame
  /\ pending_pos = 0
  /\ run_start = 0
  /\ runs = << >>
  /\ group_count = 0
  /\ group_delay_sum = 0
  /\ removed = 0
  /\ sim = Zero
  /\ kept_pos = << >>
  /\ ret = 0
  /\ fault = "none"

\* No array is in use.
NoArrays ==
  /\ output = << >>
  /\ removed_indices = << >>
  /\ output_mem = NoMem
  /\ removed_mem = NoMem

PixIdle ==
  /\ px1 = PixZero
  /\ px2 = PixZero
  /\ px_eq = FALSE

ArrIdle ==
  /\ arr_kind = "none"
  /\ arr = ZeroedArray
  /\ arr_old = ZeroedArray
  /\ arr_op = "none"

CallIdle ==
  /\ call_a = NULL
  /\ call_b = NULL
  /\ call_roi = NoRoi
  /\ call_op = "none"
  /\ call_sim = Zero
  /\ call_dup = FALSE

\* ------------------------------------------------- RemoveDuplicateFrames pass
InitPass ==
  /\ input \in Inputs
  /\ \E c \in PassCalls :
       cfg = c[1] /\ want_removed = c[2] /\ want_output = c[3]
  /\ pc = "call"
  /\ PassIdle
  /\ output \in (IF want_output THEN CallerFrames ELSE {<< >>})
  /\ output_mem = CallerMem(output)
  /\ removed_indices \in (IF want_removed THEN CallerIndices ELSE {<< >>})
  /\ removed_mem = CallerMem(removed_indices)
  /\ CallIdle
  /\ PixIdle
  /\ ArrIdle

\* if (!input || input_count == 0 || !cfg) return 0;
ReturnEmpty ==
  /\ pc = "call"
  /\ Len(input) = 0
  /\ pc' = "done"
  /\ LET r == RemoveDuplicateFrames(
                input, cfg, Wants, Reliable,
                [output |-> output, removed_indices |-> removed_indices])
     IN /\ ret' = r.ret
        /\ output' = r.output
        /\ removed_indices' = r.removed_indices
  /\ UNCHANGED <<input, cfg, want_output, want_removed, i, pending,
                 group_count, group_delay_sum, removed, sim, output_mem,
                 removed_mem, fault, pending_pos, run_start, kept_pos, runs,
                 callVars, pixVars, arrVars>>

\* Initialise the arrays and the first run.
Begin ==
  /\ pc = "call"
  /\ Len(input) > 0
  /\ \E ok_frames \in BOOLEAN, ok_indices \in BOOLEAN :
       SetLocals(PassStart(input, Wants, ok_frames, ok_indices))
  /\ pc' = "loop"
  /\ UNCHANGED <<cfg, want_output, want_removed, ret, callVars, pixVars, arrVars>>

CurIsDup == IsDuplicateFrame(pending, input[i + 1], cfg).dup

\* The locals n after an iteration, and where the pass goes on.
Step(n) ==
  /\ SetLocals(n)
  /\ pc' = (IF Crashed(n) THEN "crashed" ELSE "loop")

IterDupKeepFirst ==
  /\ pc = "loop"
  /\ i < Len(input)
  /\ CurIsDup
  /\ cfg.keep_mode = kDuplicateKeepFirst
  /\ \E ok \in BOOLEAN, trap \in BOOLEAN :
       Step(LoopBody(Locals, cfg, Wants, ok, trap))
  /\ UNCHANGED <<cfg, want_output, want_removed, ret, callVars, pixVars, arrVars>>

IterDupKeepLast ==
  /\ pc = "loop"
  /\ i < Len(input)
  /\ CurIsDup
  /\ cfg.keep_mode # kDuplicateKeepFirst
  /\ \E ok \in BOOLEAN, trap \in BOOLEAN :
       Step(LoopBody(Locals, cfg, Wants, ok, trap))
  /\ UNCHANGED <<cfg, want_output, want_removed, ret, callVars, pixVars, arrVars>>

IterFlush ==
  /\ pc = "loop"
  /\ i < Len(input)
  /\ ~CurIsDup
  /\ \E ok \in BOOLEAN, trap \in BOOLEAN :
       Step(LoopBody(Locals, cfg, Wants, ok, trap))
  /\ UNCHANGED <<cfg, want_output, want_removed, ret, callVars, pixVars, arrVars>>

\* The locals n after the final flush; the call returns removed unless the
\* flush trapped.
Return(n) ==
  /\ SetLocals(n)
  /\ pc' = (IF Crashed(n) THEN "crashed" ELSE "done")
  /\ ret' = (IF Crashed(n) THEN ret ELSE n.removed)

\* Flush the final run and return.
FinalFlush ==
  /\ pc = "loop"
  /\ i >= Len(input)
  /\ \E ok \in BOOLEAN : Return(LastFlush(Locals, cfg, Wants, ok))
  /\ UNCHANGED <<cfg, want_output, want_removed, callVars, pixVars, arrVars>>

\* ------------------------------------------------- direct similarity calls
\* The frames IsDuplicateFrame is called with: the region call_roi is
\* carried by the current frame ("dup_curr") or by the previous one
\* ("dup_prev"); under "dup_both" the current frame carries call_roi and the
\* previous frame the region OtherRoi.
RegionFrame(index, bmp, roi) ==
  FrameInfo(index, bmp, 0, roi.left, roi.top,
            roi.right - roi.left, roi.bottom - roi.top)
OtherRoi == Rect(0, 0, 1, 1)
CallPrev(op) ==
  IF op = "dup_prev" THEN RegionFrame(0, call_a, call_roi)
  ELSE IF op = "dup_both" THEN RegionFrame(0, call_a, OtherRoi)
  ELSE FrameInfo(0, call_a, 0, 0, 0, 0, 0)
CallCurr(op) ==
  IF op \in {"dup_curr", "dup_both"} THEN RegionFrame(1, call_b, call_roi)
  ELSE FrameInfo(1, call_b, 0, 0, 0, 0, 0)

InitCall ==
  /\ input = << >>
  /\ cfg \in CallCfgs
  /\ want_output = FALSE
  /\ want_removed = FALSE
  /\ pc = "idle"
  /\ PassIdle
  /\ NoArrays
  /\ call_a \in Handles
  /\ call_b \in Handles
  /\ call_roi \in CallRois
  /\ call_op = "none"
  /\ call_sim = Zero
  /\ call_dup = FALSE
  /\ PixIdle
  /\ ArrIdle

\* call_op tells how the call ended: "sim" with the score of a defined
\* execution, "sim_ub" with a score returned after undefined behaviour,
\* "sim_crash" when the call trapped; "dup_prev", "dup_curr", "dup_both",
\* "dup_ub" and "dup_crash" likewise for IsDuplicateFrame.
DoCalculateSimilarity ==
  /\ call_op = "none"
  /\ pc = "idle"
  /\ \E o \in SimilarityOutcomes(call_a, call_b, call_roi, cfg) :
       /\ call_op' = (IF o.crash THEN "sim_crash"
                      ELSE IF o.ub THEN "sim_ub" ELSE "sim")
       /\ call_sim' = o.sim
  /\ UNCHANGED <<input, cfg, want_output, want_removed, pc, passVars, ret,
                 call_a, call_b, call_roi, call_dup, pixVars, arrVars>>

DoIsDuplicateFrame ==
  /\ call_op = "none"
  /\ pc = "idle"
  /\ \E op \in {"dup_prev", "dup_curr", "dup_both"} :
       \E d \in DuplicateOutcomes(CallPrev(op), CallCurr(op), cfg) :
         /\ call_op' = (IF d.crash THEN "dup_crash"
                        ELSE IF d.ub THEN "dup_ub" ELSE op)
         /\ call_sim' = d.sim
         /\ call_dup' = d.dup
  /\ UNCHANGED <<input, cfg, want_output, want_removed, pc, passVars, ret,
                 call_a, call_b, call_roi, pixVars, arrVars>>

\* ------------------------------------------------- direct pixels_equal calls
\* The pixels, masks and tolerances of a direct call.  The masks select all
\* channels, the colour channels, no channel, one whole channel, and single
\* bits of a channel.
PixelPool ==
  { LICE_RGBA(r, g, b, a) : r \in {0, 3, 16}, g \in {0, 2}, b \in {0, 255},
                            a \in {0, 1} }
PixelMasks ==
  { MaskFull, MaskRGB, PixZero, LICE_RGBA(0, 0, 0, 255),
    LICE_RGBA(16, 0, 0, 0), LICE_RGBA(1, 255, 0, 0) }
PixelTolerances == {-1, 0, 1, 2, 3, 15, 16, 255}
PixelCfgs ==
  { Settings(One, 1, 1, t, m, kDuplicateKeepFirst, kSum, TRUE) :
      t \in PixelTolerances, m \in PixelMasks }

InitPixel ==
  /\ input = << >>
  /\ cfg \in PixelCfgs
  /\ want_output = FALSE
  /\ want_removed = FALSE
  /\ pc = "pixel"
  /\ PassIdle
  /\ NoArrays
  /\ CallIdle
  /\ px1 \in PixelPool
  /\ px2 \in PixelPool
  /\ px_eq = FALSE
  /\ ArrIdle

DoPixelsEqual ==
  /\ pc = "pixel"
  /\ px_eq' = pixels_equal(px1, px2, cfg)
  /\ pc' = "compared"
  /\ UNCHANGED <<input, cfg, want_output, want_removed, passVars, ret, callVars, px1, px2,
                 arrVars>>

\* ---------------------------------------------------- array call sequences
\* A zero-initialised struct, then any sequence of Init, Add and Free in
\* which each allocation may fail.  Add is called while fewer than
\* MaxEntries entries are stored.
InitialCapacities == {0, 1, 2}
ArrayFrames ==
  { FrameInfo(0, 1, 2, 0, 0, 0, 0), FrameInfo(1, NULL, 5, 1, 1, 1, 1) }
ArrayIndices == {0, 1}
ArrayEntries == IF arr_kind = "FrameArray" THEN ArrayFrames ELSE ArrayIndices

InitArray ==
  /\ input = << >>
  /\ cfg = DefaultSettings
  /\ want_output = FALSE
  /\ want_removed = FALSE
  /\ pc = "array"
  /\ PassIdle
  /\ NoArrays
  /\ CallIdle
  /\ PixIdle
  /\ arr_kind \in {"FrameArray", "IndexArray"}
  /\ arr = ZeroedArray
  /\ arr_old = ZeroedArray
  /\ arr_op = "none"

ArrayCallable == pc = "array" /\ arr_op # "fault"

DoArrayInit ==
  /\ ArrayCallable
  /\ \E cap \in InitialCapacities, ok \in BOOLEAN :
       arr' = (IF arr_kind = "FrameArray" THEN FrameArray_Init(cap, ok)
               ELSE IndexArray_Init(cap, ok))
  /\ arr_old' = arr
  /\ arr_op' = "init"
  /\ UNCHANGED <<input, cfg, want_output, want_removed, pc, passVars, ret, callVars,
                 pixVars, arr_kind>>

AddResult(entry, ok) ==
  IF arr_kind = "FrameArray" THEN FrameArray_Add(arr, entry, ok)
  ELSE IndexArray_Add(arr, entry, ok)

DoArrayAdd ==
  /\ ArrayCallable
  /\ arr.count < MaxEntries
  /\ \E entry \in ArrayEntries, ok \in BOOLEAN :
       /\ arr' = AddResult(entry, ok).arr
       /\ arr_op' = (IF AddResult(entry, ok).fault THEN "fault"
                     ELSE IF arr.count >= arr.capacity /\ ~ok THEN "add_failed"
                     ELSE "add")
  /\ arr_old' = arr
  /\ UNCHANGED <<input, cfg, want_output, want_removed, pc, passVars, ret, callVars,
                 pixVars, arr_kind>>

DoArrayFree ==
  /\ ArrayCallable
  /\ arr' = (IF arr_kind = "FrameArray" THEN FrameArray_Free(arr)
             ELSE IndexArray_Free(arr))
  /\ arr_old' = arr
  /\ arr_op' = "free"
  /\ UNCHANGED <<input, cfg, want_output, want_removed, pc, passVars, ret, callVars,
                 pixVars, arr_kind>>

\* A behaviour is one RemoveDuplicateFrames pass, or one direct call of
\* CalculateSimilarity or IsDuplicateFrame, or one direct call of
\* pixels_equal, or a sequence of calls on one array.
Init == InitPass \/ InitCall \/ InitPixel \/ InitArray

Next ==
  \/ ReturnEmpty
  \/ Begin
  \/ IterDupKeepFirst
  \/ IterDupKeepLast
  \/ IterFlush
  \/ FinalFlush
  \/ DoCalculateSimilarity
  \/ DoIsDuplicateFrame
  \/ DoPixelsEqual
  \/ DoArrayInit
  \/ DoArrayAdd
  \/ DoArrayFree

Spec == Init /\ [][Next]_vars

\* =================================================================== claims
\* The pass claims are about the executions in which nothing went wrong so
\* far: every allocation succeeded and the delay sums stayed in int.
Sound == fault = "none"
NothingLost == fault \notin {"lost", "lost_wrapped"}
\* The position of the frame that was pending in the comparison just made.
ComparedWith ==
  IF run_start = i - 1 THEN kept_pos[Len(kept_pos)]
  ELSE IF cfg.keep_mode = kDuplicateKeepFirst THEN run_start
  ELSE i - 2
Looping == pc = "loop"
InPass == pc \in {"loop", "done"} /\ Len(input) > 0
Returned == pc = "done"

Range(q) == {q[k] : k \in 1..Len(q)}
StrictlyIncreasing(q) == \A k \in 1..(Len(q) - 1) : q[k] < q[k + 1]
Positions == 0..(Len(input) - 1)

\* Sums of delays as the integers they are, which an int may not hold: the
\* total [wraps, low] stands for low + wraps * 2^32, low being an int.
Exact(v) == [wraps |-> 0, low |-> v]
AddExact(t, v) ==
  IF AddOverflows(t.low, v)
    THEN [wraps |-> t.wraps + (IF v > 0 THEN 1 ELSE -1), low |-> Add32(t.low, v)]
    ELSE [wraps |-> t.wraps, low |-> t.low + v]

\* Sum of the delays of the frames of q at 0-based positions lo..hi.
RECURSIVE DelaySum(_, _, _)
DelaySum(q, lo, hi) ==
  IF lo > hi THEN Exact(0)
  ELSE AddExact(DelaySum(q, lo, hi - 1), q[hi + 1].delay_ms)

\* C1: the pass partitions the input positions in order.  During the pass
\* emitted + removed + 1 pending = frames consumed; on return the kept
\* positions are strictly increasing, the removed indices are strictly
\* ascending valid positions, kept and removed positions are disjoint and
\* cover the input, and the returned count is the number of removed indices
\* and the input length minus the output length.  (Stated for the calls
\* that pass an output array.)
C1_Partition ==
  /\ (Looping /\ want_output =>
                 /\ Len(output) + removed + 1 = i
                     /\ i <= Len(input)
                     /\ Len(kept_pos) = Len(output))
  /\ (Returned /\ want_output /\ Len(input) > 0 =>
        /\ Len(kept_pos) = Len(output)
        /\ StrictlyIncreasing(kept_pos)
        /\ Range(kept_pos) \subseteq Positions
        /\ ret = removed
        /\ ret = Len(input) - Len(output)
        /\ (want_removed =>
              /\ StrictlyIncreasing(removed_indices)
              /\ Range(removed_indices) \subseteq Positions
              /\ Range(removed_indices) \cap Range(kept_pos) = {}
              /\ Range(removed_indices) \cup Range(kept_pos) = Positions
              /\ ret = Len(removed_indices)))

\* C2: each emitted frame is the first frame of its run under KeepFirst and
\* the last under KeepLast, with that input frame's index, raster and
\* region; the removed indices are the other positions of the runs.
\* (Stated for the calls that pass an output array.)
RunPositions(k) == runs[k][1]..runs[k][2]
RunsTileInput ==
  /\ Len(runs) = Len(output)
  /\ \A k \in 1..Len(runs) :
       /\ runs[k][1] <= runs[k][2]
       /\ runs[k][1] = (IF k = 1 THEN 0 ELSE runs[k - 1][2] + 1)
  /\ (Returned /\ Len(runs) > 0 => runs[Len(runs)][2] = Len(input) - 1)

C2_KeptRepresentative ==
  (InPass /\ want_output) =>
    /\ RunsTileInput
    /\ Len(kept_pos) = Len(output)
    /\ \A k \in 1..Len(output) :
         /\ kept_pos[k] = (IF cfg.keep_mode = kDuplicateKeepFirst
                             THEN runs[k][1] ELSE runs[k][2])
         /\ [output[k] EXCEPT !.delay_ms = 0]
              = [input[kept_pos[k] + 1] EXCEPT !.delay_ms = 0]
    /\ (Returned /\ want_removed =>
          Range(removed_indices) =
            UNION { RunPositions(k) \ {kept_pos[k]} : k \in 1..Len(runs) })

\* C3: under kSum, for every input sequence, every output delay is the
\* delay total of its run, the output delays add up to the input delays, and
\* during the pass the emitted delays plus the accumulator add up to the
\* delays consumed; the pass does not trap.  (Stated for the calls that pass
\* an output array and the executions in which every allocation succeeds.)
AllocationsSucceeded == fault \in {"none", "wrapped", "overflow_trap"}

C3_SumPreserved ==
  (Len(input) > 0 /\ cfg.delay_adjust_mode = kSum /\ want_output
     /\ AllocationsSucceeded) =>
    /\ pc # "crashed"
    /\ (pc \in {"loop", "done"} =>
          \A k \in 1..Len(output) :
            Exact(output[k].delay_ms) = DelaySum(input, runs[k][1], runs[k][2]))
    /\ (pc = "loop" =>
          AddExact(DelaySum(output, 0, Len(output) - 1), group_delay_sum)
            = DelaySum(input, 0, i - 1))
    /\ (pc = "done" =>
          DelaySum(output, 0, Len(output) - 1)
            = DelaySum(input, 0, Len(input) - 1))

\* C4: the delay emitted at every flush follows the adjustment rule: the
\* representative's own input delay under kDontAdjust, the run total under
\* kSum, the run total divided by the run length, truncated toward zero,
\* under kAverage; and the accumulators of the current run count exactly
\* the frames since the run started.  (Stated for the executions in which
\* every allocation succeeds.)
TruncatedQuotient(q, total, n) ==
  IF total >= 0
    THEN 0 <= total - q * n /\ total - q * n < n
    ELSE -n < total - q * n /\ total - q * n <= 0

C4_FlushDelay ==
  (InPass /\ AllocationsSucceeded) =>
    /\ \A k \in 1..Len(output) :
         LET total == DelaySum(input, runs[k][1], runs[k][2]).low
             n == runs[k][2] - runs[k][1] + 1
             own == IF cfg.keep_mode = kDuplicateKeepFirst
                      THEN input[runs[k][1] + 1].delay_ms
                      ELSE input[runs[k][2] + 1].delay_ms
         IN /\ DelaySum(input, runs[k][1], runs[k][2]).wraps = 0
            /\ (cfg.delay_adjust_mode = kDontAdjust => output[k].delay_ms = own)
            /\ (cfg.delay_adjust_mode = kSum => output[k].delay_ms = total)
            /\ (cfg.delay_adjust_mode = kAverage =>
                  TruncatedQuotient(output[k].delay_ms, total, n))
    /\ (Looping =>
          /\ group_count = i - run_start
          /\ Exact(group_delay_sum) = DelaySum(input, run_start, i - 1))

\* C5: running RemoveDuplicateFrames again on its own output, with the same
\* settings, removes nothing and returns the same frames.
C5_Idempotent ==
  (Returned /\ Sound /\ Len(input) > 0) =>
    LET again == RemoveDuplicateFrames(
                   output, cfg, Wants, Reliable,
                   [output |-> << >>, removed_indices |-> << >>])
    IN /\ again.ret = 0
       /\ again.output = output

\* C6: the early-out is a pure optimisation.  The same call with the
\* early-out flag flipped returns too; the score with early-out is never the
\* higher one and differs from the other only when both are below the
\* threshold; so the decision of IsDuplicateFrame and the result of
\* RemoveDuplicateFrames are the same with early-out on and off.
FlipEarlyOut(c) == [c EXCEPT !.enable_early_out = ~@]
EarlyOff(c) == [c EXCEPT !.enable_early_out = FALSE]

ScoresAgree(c, with, without) ==
  /\ ScoreLe(with, without)
  /\ (~ScoreEq(with, without) =>
        /\ ScoreLt(with, c.similarity_threshold)
        /\ ScoreLt(without, c.similarity_threshold))

\* The outcome o of the flipped call agrees with the call that was made.
FlippedAgrees(o) ==
  /\ ~o.crash
  /\ IF cfg.enable_early_out
       THEN ScoresAgree(cfg, call_sim, o.sim)
       ELSE ScoresAgree(cfg, o.sim, call_sim)

C6_EarlyOutPure ==
  /\ (call_op = "sim" =>
        \A o \in SimilarityOutcomes(call_a, call_b, call_roi,
                                    FlipEarlyOut(cfg)) :
          FlippedAgrees(o))
  /\ (call_op \in {"dup_prev", "dup_curr"} =>
        \A d \in DuplicateOutcomes(CallPrev(call_op), CallCurr(call_op),
                                   FlipEarlyOut(cfg)) :
          FlippedAgrees(d) /\ d.dup = call_dup)
  /\ (Looping /\ i >= 2 =>
        LET prev == input[ComparedWith + 1]
            curr == input[i]
            with == IsDuplicateFrame(prev, curr, [cfg EXCEPT !.enable_early_out = TRUE])
            without == IsDuplicateFrame(prev, curr, EarlyOff(cfg))
        IN /\ with.dup = without.dup
           /\ ScoresAgree(cfg, with.sim, without.sim))
  /\ (Returned /\ Sound /\ Len(input) > 0 =>
        LET other == RemoveDuplicateFrames(
                       input, FlipEarlyOut(cfg), Wants, Reliable,
                       [output |-> << >>, removed_indices |-> << >>])
        IN /\ other.ret = ret
           /\ other.output = output
           /\ other.removed_indices = removed_indices)

\* C7: every score CalculateSimilarity returns lies in [0, 1].
InUnitInterval(s) == ScoreLe(Zero, s) /\ ScoreLe(s, One)

C7_ScoreInRange ==
  /\ (call_op # "none" => InUnitInterval(call_sim))
  /\ (InPass => InUnitInterval(sim))

C7_Witness ==
  /\ call_op = "sim"
  /\ call_roi = Rect(0, 1, 5, 5)
  /\ call_sim = Score(1, 2)

\* C8: with zero tolerance, the full mask, step 1x1 and the full frame, the
\* score is exactly 1.0 iff all pixel pairs are bitwise equal; so at
\* threshold 1.0 only identical rasters are duplicates, and a sequence whose
\* adjacent frames all differ is returned unchanged.
SamePixels(a, b) ==
  \A x \in 0..(getWidth(a) - 1), y \in 0..(getHeight(a) - 1) :
    ScanPixel(a, x, y) = ScanPixel(b, x, y)
SameSize(a, b) ==
  a # NULL /\ b # NULL /\ getWidth(a) = getWidth(b) /\ getHeight(a) = getHeight(b)
ExactSettings(c) ==
  /\ c.per_channel_tolerance = 0
  /\ c.channel_mask = MaskFull
  /\ c.sample_step_x = 1
  /\ c.sample_step_y = 1
CoversFrame(a, roi) ==
  \/ roi.null
  \/ /\ roi.left <= 0
     /\ roi.top <= 0
     /\ roi.right >= getWidth(a)
     /\ roi.bottom >= getHeight(a)
NoRegion(f) == f.w <= 0 \/ f.h <= 0
AdjacentFramesDiffer ==
  \A k \in 1..(Len(input) - 1) :
    ~(SameSize(input[k].bmp, input[k + 1].bmp)
        /\ SamePixels(input[k].bmp, input[k + 1].bmp))

C8_ExactIffIdentical ==
  /\ (call_op = "sim" /\ ExactSettings(cfg) /\ SameSize(call_a, call_b)
        /\ CoversFrame(call_a, call_roi)
      => (ScoreEq(call_sim, One) <=> SamePixels(call_a, call_b)))
  /\ (call_op = "dup_curr" /\ ExactSettings(cfg) /\ call_a # NULL
        /\ CoversFrame(call_a, call_roi)
        /\ cfg.similarity_threshold = One /\ call_dup
      => SameSize(call_a, call_b) /\ SamePixels(call_a, call_b))
  /\ (Returned /\ want_output /\ Len(input) > 0 /\ ExactSettings(cfg)
        /\ cfg.similarity_threshold = One
        /\ (\A k \in 1..Len(input) : NoRegion(input[k]))
        /\ AdjacentFramesDiffer
      => /\ output = input
         /\ ret = 0
         /\ removed_indices = << >>)

\* C9: with zero tolerance and the full mask a raster compared with itself
\* scores exactly 1.0, for every region, step, threshold and early-out flag.
C9_Reflexive ==
  (call_op \in {"sim", "sim_ub", "sim_crash"}
     /\ call_a # NULL /\ call_a = call_b
     /\ cfg.per_channel_tolerance = 0 /\ cfg.channel_mask = MaskFull)
  => call_op # "sim_crash" /\ ScoreEq(call_sim, One)

\* C10 (as claimed): with zero tolerance, step 1x1, the RGB mask and no
\* region the score is the fraction of pixels that are equal under the mask.
RgbDiffer(p, q) == p.r # q.r \/ p.g # q.g \/ p.b # q.b
RgbDiffSet(a, b) ==
  {xy \in (0..(getWidth(a) - 1)) \X (0..(getHeight(a) - 1)) :
     RgbDiffer(ScanPixel(a, xy[1], xy[2]), ScanPixel(b, xy[1], xy[2]))}
DefaultCompare ==
  /\ call_op = "sim"
  /\ cfg.per_channel_tolerance = DefaultSettings.per_channel_tolerance
  /\ cfg.sample_step_x = DefaultSettings.sample_step_x
  /\ cfg.sample_step_y = DefaultSettings.sample_step_y
  /\ cfg.channel_mask = DefaultSettings.channel_mask
  /\ call_roi.null
  /\ SameSize(call_a, call_b)
  /\ getWidth(call_a) * getHeight(call_a) > 0
Area(a) == getWidth(a) * getHeight(a)

C10_FractionOfEqualPixels ==
  DefaultCompare =>
    ScoreEq(call_sim,
            Score(Area(call_a) - Cardinality(RgbDiffSet(call_a, call_b)),
                  Area(call_a)))

\* C10 (amended): the score is 1.0 when the rasters agree under the mask at
\* every stored position, and otherwise 1.0 - (double)box / (double)(width *
\* height), box being the area of the minimal bounding box of the stored
\* positions (column, physical row) at which they differ under the mask; its
\* value is (width * height - box) / (width * height) to within one unit in
\* the last place, which is the fraction of equal stored pixels when the
\* differing positions fill the box.
StoredRgbDiffSet(a, b) ==
  {xy \in (0..(getWidth(a) - 1)) \X (0..(getHeight(a) - 1)) :
     RgbDiffer(StoredPixel(a, xy[1], xy[2]), StoredPixel(b, xy[1], xy[2]))}
BoxArea(D) ==
  IF D = {} THEN 0
  ELSE (SetMax({xy[1] : xy \in D}) - SetMin({xy[1] : xy \in D}) + 1)
         * (SetMax({xy[2] : xy \in D}) - SetMin({xy[2] : xy \in D}) + 1)
BoxScore(D, total) ==
  IF D = {} THEN One
  ELSE [n |-> total - BoxArea(D), d |-> total,
        err |-> ComplementError(BoxArea(D), total)]

C10_BoundingBoxRatio ==
  DefaultCompare =>
    LET D == StoredRgbDiffSet(call_a, call_b)
    IN /\ ScoreEq(call_sim, BoxScore(D, Area(call_a)))
       /\ call_sim.n * Area(call_a) = (Area(call_a) - BoxArea(D)) * call_sim.d
       /\ call_sim.err \in {-1, 0, 1}
       /\ (Cardinality(D) = BoxArea(D) =>
             call_sim.n * Area(call_a)
               = (Area(call_a) - Cardinality(D)) * call_sim.d)

C10_Witness ==
  /\ DefaultCompare
  /\ cfg.similarity_threshold = Score(9, 10)
  /\ Cardinality(StoredRgbDiffSet(call_a, call_b)) = 2
  /\ BoxArea(StoredRgbDiffSet(call_a, call_b)) = 4
  /\ call_sim = Score(0, 4)

\* C11: in the manual scan without early-out the score is the number of
\* sampled positions whose pixels are equal over ceil(rw/sX) * ceil(rh/sY),
\* the sampled positions being (left + i*sX, top + j*sY) inside the clamped
\* region; a raster that differs from b only off this grid gets b's score.
CeilDiv(n, d) == -((-n) \div d)
SampleGrid(r, sX, sY) ==
  {p \in (r.left..(r.right - 1)) \X (r.top..(r.bottom - 1)) :
     (p[1] - r.left) % sX = 0 /\ (p[2] - r.top) % sY = 0}
EqualOn(G, a, b, c) ==
  {p \in G : pixels_equal(ScanPixel(a, p[1], p[2]), ScanPixel(b, p[1], p[2]), c)}
AgreeOn(G, b, c) ==
  /\ getWidth(b) = getWidth(c)
  /\ getHeight(b) = getHeight(c)
  /\ \A p \in G : ScanPixel(b, p[1], p[2]) = ScanPixel(c, p[1], p[2])
CallRegion == compute_roi(call_a, call_b, call_roi)
CallGrid ==
  SampleGrid(CallRegion, StepOf(cfg.sample_step_x), StepOf(cfg.sample_step_y))
ManualScanCall ==
  /\ call_op = "sim"
  /\ ReachesScan(call_a, call_b, CallRegion, cfg)

C11_SampledFraction ==
  (call_op \in {"sim", "sim_ub", "sim_crash"}
     /\ ReachesScan(call_a, call_b, CallRegion, cfg)
     /\ ~cfg.enable_early_out) =>
    /\ call_op # "sim_crash"
    /\ Cardinality(CallGrid)
         = CeilDiv(CallRegion.right - CallRegion.left, StepOf(cfg.sample_step_x))
             * CeilDiv(CallRegion.bottom - CallRegion.top, StepOf(cfg.sample_step_y))
    /\ call_sim.d = Cardinality(CallGrid)
    /\ call_sim.n = Cardinality(EqualOn(CallGrid, call_a, call_b, cfg))
    /\ \A c \in BmpIds :
         AgreeOn(CallGrid, call_b, c) =>
           CalculateSimilarity(call_a, c, call_roi, cfg) = call_sim

\* C12: a sample step of 0 or less is treated as 1: the score of a call with
\* sample_step_x <= 0 or sample_step_y <= 0 is the score of the same call
\* with those steps set to 1.
CoerceSteps(c) ==
  [c EXCEPT !.sample_step_x = IF @ <= 0 THEN 1 ELSE @,
            !.sample_step_y = IF @ <= 0 THEN 1 ELSE @]

C12_StepCoerced ==
  (call_op = "sim" /\ (cfg.sample_step_x <= 0 \/ cfg.sample_step_y <= 0)) =>
    ScoreEq(call_sim,
            CalculateSimilarity(call_a, call_b, call_roi, CoerceSteps(cfg)))

\* C13: for every step from 1 to the largest int the sample total computed
\* in int arithmetic is the number of grid positions the loops visit and is
\* at least 1 on a non-empty region; with steps at least as large as the
\* region the call returns 1.0 or 0.0 according to the region's top-left
\* pixel.
SimilarityCall == call_op \in {"sim", "sim_ub", "sim_crash"}
TopLeftScore ==
  IF pixels_equal(ScanPixel(call_a, CallRegion.left, CallRegion.top),
                  ScanPixel(call_b, CallRegion.left, CallRegion.top), cfg)
    THEN One ELSE Zero

C13_SampleTotalInRange ==
  (SimilarityCall /\ cfg.sample_step_x >= 1 /\ cfg.sample_step_y >= 1
     /\ ReachesScan(call_a, call_b, CallRegion, cfg)) =>
    LET rw == CallRegion.right - CallRegion.left
        rh == CallRegion.bottom - CallRegion.top
        total == SampleCount(rw, cfg.sample_step_x)
                   * SampleCount(rh, cfg.sample_step_y)
    IN /\ total = Cardinality(CallGrid)
       /\ total >= 1
       /\ (cfg.sample_step_x >= rw /\ cfg.sample_step_y >= rh =>
             /\ call_op # "sim_crash"
             /\ ScoreEq(call_sim, TopLeftScore))

\* C14: for two present rasters of equal dimensions, a region whose clamped
\* form has zero width or zero height makes CalculateSimilarity return
\* exactly 1.0, whatever the rasters contain and whatever the settings.
EmptyCallRegion ==
  \/ CallRegion.right - CallRegion.left = 0
  \/ CallRegion.bottom - CallRegion.top = 0

C14_EmptyRegionIsOne ==
  (SimilarityCall /\ SameSize(call_a, call_b) /\ EmptyCallRegion) =>
    /\ call_op = "sim"
    /\ call_sim = One

C14_Witness ==
  /\ call_op = "sim"
  /\ call_a = 1
  /\ call_b = 3
  /\ ~SamePixels(call_a, call_b)
  /\ call_roi = Rect(1, 0, 1, 2)
  /\ CallRegion.bottom - CallRegion.top = 2
  /\ cfg.similarity_threshold = One
  /\ call_sim = One

\* C15: when the current frame's region is empty (w = 0 and h = 0),
\* IsDuplicateFrame reports a duplicate for every threshold, whatever the two
\* (present) rasters contain.
DuplicateCall == call_op \in {"dup_prev", "dup_curr"}

C15_EmptyRegionDuplicate ==
  (DuplicateCall /\ call_a # NULL /\ call_b # NULL
     /\ CallCurr(call_op).w = 0 /\ CallCurr(call_op).h = 0) =>
    call_dup

\* C16: with an absent raster CalculateSimilarity returns exactly 0.0 and
\* IsDuplicateFrame returns false with similarity 0.0, for every settings
\* record and threshold, 0.0 included; RemoveDuplicateFrames never puts a
\* frame with an absent raster into a run with a neighbour.
AbsentRaster == call_a = NULL \/ call_b = NULL
AnyDuplicateCall ==
  call_op \in {"dup_prev", "dup_curr", "dup_ub", "dup_crash"}
Absent(lo, hi) == \E p \in lo..hi : input[p + 1].bmp = NULL

C16_AbsentRaster ==
  /\ (SimilarityCall /\ AbsentRaster => call_op = "sim" /\ call_sim = Zero)
  /\ (AnyDuplicateCall /\ AbsentRaster =>
        /\ DuplicateCall
        /\ ~call_dup
        /\ call_sim = Zero)
  /\ (InPass =>
        /\ \A k \in 1..Len(runs) :
             Absent(runs[k][1], runs[k][2]) => runs[k][1] = runs[k][2]
        /\ (Looping /\ Absent(run_start, i - 1) =>
              run_start = i - 1 /\ group_count = 1))

C16_Witness ==
  /\ Returned
  /\ cfg.similarity_threshold = Zero
  /\ Len(input) = 3
  /\ input[1].bmp # NULL
  /\ input[2].bmp = NULL
  /\ input[3].bmp = input[1].bmp
  /\ Len(output) = 3
  /\ ret = 0

\* C17: for two present rasters whose widths or heights differ,
\* CalculateSimilarity returns exactly 0.0 for every region and settings
\* record; the size check comes before the empty-region rule, so an empty
\* region on mismatched rasters yields 0.0 as well.
Mismatched(a, b) ==
  /\ a # NULL
  /\ b # NULL
  /\ (getWidth(a) # getWidth(b) \/ getHeight(a) # getHeight(b))

C17_MismatchIsZero ==
  (SimilarityCall /\ Mismatched(call_a, call_b)) =>
    /\ call_op = "sim"
    /\ call_sim = Zero

C17_Witness ==
  /\ call_op = "sim"
  /\ call_a = 1
  /\ call_b = 7
  /\ Mismatched(call_a, call_b)
  /\ call_roi = Rect(1, 1, 1, 1)
  /\ EmptyCallRegion
  /\ call_sim = Zero

\* C18 (as claimed): two frames whose rasters differ in width or height are
\* never duplicates: IsDuplicateFrame returns false for every threshold in
\* [0,1] and every region, and RemoveDuplicateFrames never puts them into
\* one run.
SameRunSameSize(lo, hi) ==
  \A p \in lo..hi, q \in lo..hi :
    ~Mismatched(input[p + 1].bmp, input[q + 1].bmp)
RunsSameSize ==
  /\ \A k \in 1..Len(runs) : SameRunSameSize(runs[k][1], runs[k][2])
  /\ (Looping => SameRunSameSize(run_start, i - 1))

C18_MismatchNeverDuplicate ==
  /\ (AnyDuplicateCall /\ Mismatched(call_a, call_b) => ~call_dup)
  /\ (InPass => RunsSameSize)

\* C18 (amended): for mismatched rasters IsDuplicateFrame reports similarity
\* 0.0 and returns true exactly when the threshold is 0.0 or less; with a
\* threshold above 0.0 it returns false and RemoveDuplicateFrames never puts
\* frames of different dimensions into one run.
PositiveThreshold == ScoreLt(Zero, cfg.similarity_threshold)

C18_MismatchBelowThreshold ==
  /\ (AnyDuplicateCall /\ Mismatched(call_a, call_b) =>
        /\ DuplicateCall
        /\ call_sim = Zero
        /\ (call_dup <=> ~PositiveThreshold))
  /\ (InPass /\ PositiveThreshold => RunsSameSize)

C18_Witness ==
  /\ call_op = "dup_curr"
  /\ call_a = 1
  /\ call_b = 7
  /\ Mismatched(call_a, call_b)
  /\ call_roi = Rect(0, 0, 2, 2)
  /\ cfg.similarity_threshold = Score(9, 10)
  /\ ~call_dup
  /\ call_sim = Zero

\* C19 (as claimed): at threshold 0.0 every pair of frames is a duplicate
\* whatever the content, so every non-empty input collapses to exactly one
\* output frame with input_count - 1 frames removed.
ZeroThreshold == cfg.similarity_threshold = Zero

AllPresent == \A k \in 1..Len(input) : input[k].bmp # NULL
BlockStarts ==
  {p \in Positions : \/ p = 0
                     \/ input[p + 1].bmp = NULL
                     \/ input[p].bmp = NULL}

C20_EmptyInput ==
  (Returned /\ Len(input) = 0) =>
    /\ ret = 0
    /\ output = << >>
    /\ removed_indices = << >>

\* C21: no call writes its inputs.  Every step leaves the input frames, the
\* settings and the arguments of a direct call as they were (a raster is
\* named by its handle; its pixels and dimensions are the values the handle
\* stands for).  pending is a copy of an input frame, the delay adjustment is
\* made on that copy only, and every output frame carries the index, the
\* raster reference and the region of the input frame it was copied from.
SameButDelay(f, g) == [f EXCEPT !.delay_ms = 0] = [g EXCEPT !.delay_ms = 0]
InputRasters == {input[k].bmp : k \in 1..Len(input)}
InputsKept ==
  /\ input' = input
  /\ cfg' = cfg
  /\ call_a' = call_a
  /\ call_b' = call_b
  /\ call_roi' = call_roi
OutputsAreCopies ==
  InPass =>
    /\ Len(output) <= Len(kept_pos)
    /\ \A k \in 1..Len(output) :
         /\ output[k].bmp \in InputRasters
         /\ \E j \in k..Len(kept_pos) :
              SameButDelay(output[k], input[kept_pos[j] + 1])
    /\ (want_output /\ NothingLost =>
          /\ Len(output) = Len(kept_pos)
          /\ \A k \in 1..Len(output) :
               SameButDelay(output[k], input[kept_pos[k] + 1]))
    /\ SameButDelay(pending, input[pending_pos + 1])
    /\ (Looping => pending = input[pending_pos + 1])

Swapped == CalculateSimilarity(call_b, call_a, call_roi, cfg)

C22_Symmetric ==
  /\ (call_op = "sim" =>
        /\ Swapped = call_sim
        /\ (ScoreEq(call_sim, One) <=> ScoreEq(Swapped, One)))
  /\ (SimilarityCall =>
        SimilarityOutcomes(call_b, call_a, call_roi, cfg)
          = SimilarityOutcomes(call_a, call_b, call_roi, cfg))

C22_Witness ==
  /\ call_op = "sim"
  /\ call_a = 6
  /\ call_b = 3
  /\ Bmp(call_a).flipped
  /\ ~Bmp(call_b).flipped
  /\ cfg.sample_step_x = 0
  /\ ~cfg.enable_early_out
  /\ call_roi.null
  /\ call_sim = Score(3, 4)

\* C23 (as claimed): every run consists of duplicates of its kept frame:
\* under both keep modes each removed frame of a run and the kept frame are
\* duplicates by IsDuplicateFrame (the earlier frame as prev), and the first
\* frame after the run is not a duplicate of the kept frame.
DupAt(p, q) == IsDuplicateFrame(input[p + 1], input[q + 1], cfg).dup
KeptOf(lo, hi) == IF cfg.keep_mode = kDuplicateKeepFirst THEN lo ELSE hi
DuplicatesOfKept(lo, hi) ==
  \A p \in lo..hi :
    /\ (p < KeptOf(lo, hi) => DupAt(p, KeptOf(lo, hi)))
    /\ (p > KeptOf(lo, hi) => DupAt(KeptOf(lo, hi), p))
EndsAtNonDuplicate(lo, hi) ==
  hi + 1 < Len(input) => ~DupAt(KeptOf(lo, hi), hi + 1)

C23_CommonRepresentative ==
  InPass =>
    /\ \A k \in 1..Len(runs) :
         /\ DuplicatesOfKept(runs[k][1], runs[k][2])
         /\ EndsAtNonDuplicate(runs[k][1], runs[k][2])
    /\ (Looping => DuplicatesOfKept(run_start, i - 1))

\* C23 (amended): every frame of a run but the first was classified a
\* duplicate of the representative pending when it was read: of the run's
\* first frame, which is the kept frame, under KeepFirst, and of its
\* predecessor in the run under KeepLast, where the kept frame is the last
\* one; the first frame after a run is not a duplicate of the run's kept
\* frame.
DuplicatesOfPending(lo, hi) ==
  \A p \in (lo + 1)..hi :
    IF cfg.keep_mode = kDuplicateKeepFirst THEN DupAt(lo, p) ELSE DupAt(p - 1, p)

C23_PendingRepresentative ==
  InPass =>
    /\ \A k \in 1..Len(runs) :
         /\ DuplicatesOfPending(runs[k][1], runs[k][2])
         /\ EndsAtNonDuplicate(runs[k][1], runs[k][2])
         /\ kept_pos[k] = KeptOf(runs[k][1], runs[k][2])
    /\ (Looping =>
          /\ DuplicatesOfPending(run_start, i - 1)
          /\ pending_pos = KeptOf(run_start, i - 1))

C23_Witness ==
  /\ Returned
  /\ cfg.keep_mode = kDuplicateKeepLast
  /\ cfg.similarity_threshold = Half
  /\ Len(input) = 3
  /\ runs = << <<0, 2>> >>
  /\ kept_pos = <<2>>
  /\ DupAt(0, 1)
  /\ DupAt(1, 2)
  /\ ~DupAt(0, 2)

\* C24: IsDuplicateFrame compares over the current frame's region if its w
\* and h are both positive, else over the previous frame's region if its w
\* and h are both positive, else over the full common rectangle of the two
\* rasters (what a call without region gets); the pass makes each of its
\* comparisons this way with the pending frame as prev.  A region with
\* w <= 0 or h <= 0 is no region: it never stands for an empty comparison.
PositiveRegion(f) == f.w > 0 /\ f.h > 0
RegionOf(f) == Rect(f.x, f.y, f.x + f.w, f.y + f.h)
DerivedRegion(prev, curr) ==
  IF PositiveRegion(curr) THEN RegionOf(curr)
  ELSE IF PositiveRegion(prev) THEN RegionOf(prev)
  ELSE NoRoi
ExpectedSim(prev, curr) ==
  IF prev.bmp = NULL \/ curr.bmp = NULL THEN Zero
  ELSE CalculateSimilarity(prev.bmp, curr.bmp, DerivedRegion(prev, curr), cfg)
RegionCall == call_op \in {"dup_prev", "dup_curr", "dup_both"}
C24_RegionDerivation ==
  /\ (RegionCall /\ ~AbsentRaster =>
        /\ call_sim = ExpectedSim(CallPrev(call_op), CallCurr(call_op))
        /\ (call_dup <=> ScoreLe(cfg.similarity_threshold, call_sim))
        /\ (~PositiveRegion(CallPrev(call_op))
              /\ ~PositiveRegion(CallCurr(call_op))
            => call_sim = CalculateSimilarity(call_a, call_b, NoRoi, cfg)))
  /\ (Looping /\ i >= 2 =>
        sim = ExpectedSim(input[ComparedWith + 1], input[i]))

C24_Witness ==
  /\ call_op = "dup_curr"
  /\ call_roi = Rect(1, 0, 1, 2)
  /\ CallCurr(call_op).w = 0
  /\ CallCurr(call_op).h = 2
  /\ call_a = 1
  /\ call_b = 2
  /\ ExactSettings(cfg)
  /\ cfg.similarity_threshold = One
  /\ call_sim = Score(3, 4)
  /\ ~call_dup

\* C25: pixels_equal follows the pixel equality rule.  With tolerance 0 two
\* pixels are equal iff they agree in every bit the mask selects; with a
\* tolerance above 0 they are equal iff every channel in which the mask has a
\* bit set differs by at most the tolerance in its 8-bit value; a channel in
\* which the mask has no bit never influences the result.
Channels == {"r", "g", "b", "a"}
BitOf(v, k) == (v \div (2 ^ k)) % 2
Compared == pc = "compared"
MaskedBitsAgree(p, q, m) ==
  \A ch \in Channels, k \in 0..7 :
    BitOf(m[ch], k) = 1 => BitOf(p[ch], k) = BitOf(q[ch], k)
SelectedChannels(m) == {ch \in Channels : m[ch] # 0}
WithinTolerance(p, q, m, tol) ==
  \A ch \in SelectedChannels(m) :
    p[ch] - q[ch] <= tol /\ q[ch] - p[ch] <= tol
AgreeOnSelected(p, q, m) == \A ch \in SelectedChannels(m) : p[ch] = q[ch]

C25_PixelRule ==
  Compared =>
    /\ (cfg.per_channel_tolerance = 0 =>
          (px_eq <=> MaskedBitsAgree(px1, px2, cfg.channel_mask)))
    /\ (cfg.per_channel_tolerance > 0 =>
          (px_eq <=> WithinTolerance(px1, px2, cfg.channel_mask,
                                     cfg.per_channel_tolerance)))
    /\ (cfg.per_channel_tolerance >= 0 =>
          \A q \in PixelPool :
            AgreeOnSelected(px2, q, cfg.channel_mask) =>
              pixels_equal(px1, q, cfg) = px_eq)

C25_Witness ==
  /\ Compared
  /\ cfg.per_channel_tolerance = 2
  /\ cfg.channel_mask = LICE_RGBA(16, 0, 0, 0)
  /\ px1 = LICE_RGBA(0, 0, 0, 0)
  /\ px2 = LICE_RGBA(3, 2, 255, 1)
  /\ MaskedBitsAgree(px1, px2, cfg.channel_mask)
  /\ ~px_eq

\* C26: with tolerance 0, both steps 1 and the whole frame as effective
\* region the score is 1.0 if the rasters agree under the mask and otherwise
\* 1.0 - (width * height of the minimal box around the differing pixels) /
\* (frame width * frame height), a value in [0,1]; the threshold and the
\* early-out flag do not influence it.  (The pixel at (x, y) is the one the
\* raster shows there, stored at row h-1-y when the raster is flipped.)
MaskedDiffSet(a, b, m) ==
  {xy \in (0..(getWidth(a) - 1)) \X (0..(getHeight(a) - 1)) :
     ~MaskedBitsAgree(ScanPixel(a, xy[1], xy[2]), ScanPixel(b, xy[1], xy[2]), m)}
WholeFrameCall ==
  /\ call_op = "sim"
  /\ SameSize(call_a, call_b)
  /\ Area(call_a) > 0
  /\ cfg.per_channel_tolerance = 0
  /\ cfg.sample_step_x = 1
  /\ cfg.sample_step_y = 1
  /\ CallRegion = Rect(0, 0, getWidth(call_a), getHeight(call_a))
WithDecision(c, t, e) ==
  [c EXCEPT !.similarity_threshold = t, !.enable_early_out = e]

C26_FastPathScore ==
  WholeFrameCall =>
    /\ ScoreEq(call_sim,
               BoxScore(MaskedDiffSet(call_a, call_b, cfg.channel_mask),
                        Area(call_a)))
    /\ InUnitInterval(call_sim)
    /\ \A t \in CallThresholds, e \in BOOLEAN :
         CalculateSimilarity(call_a, call_b, call_roi, WithDecision(cfg, t, e))
           = call_sim

\* C27: the fast path never over-reports.  Whenever it is taken its score is
\* at most the fraction of equal pixels, which is what the generic scan
\* returns for the same mask with step 1x1 over the full frame without
\* early-out, and it is 1.0 exactly when that fraction is 1.0; so a pair that
\* is a duplicate by the fast path is a duplicate by the generic scan.
GenericScore ==
  GenericScan(call_a, call_b, CallRegion, EarlyOff(cfg))
EqualFraction ==
  Score(Area(call_a)
          - Cardinality(MaskedDiffSet(call_a, call_b, cfg.channel_mask)),
        Area(call_a))

C27_FastPathUnderReports ==
  (WholeFrameCall /\ FastPathTaken(call_a, CallRegion, cfg)) =>
    /\ GenericScore = EqualFraction
    /\ ScoreLe(call_sim, GenericScore)
    /\ (ScoreEq(call_sim, One) <=> ScoreEq(GenericScore, One))
    /\ (Decision(cfg, call_sim).dup => Decision(cfg, GenericScore).dup)

\* C28 (as claimed): pixel equality is monotone in the tolerance for every
\* mask: two pixels equal under a tolerance t >= 0 are equal under every
\* larger tolerance.
WithTolerance(c, t) == [c EXCEPT !.per_channel_tolerance = t]
EqualUnderLarger ==
  \A t \in PixelTolerances :
    t > cfg.per_channel_tolerance => pixels_equal(px1, px2, WithTolerance(cfg, t))

C28_ToleranceMonotone ==
  (Compared /\ cfg.per_channel_tolerance >= 0 /\ px_eq) => EqualUnderLarger

\* C28 (amended): pixel equality is monotone in the tolerance from every
\* tolerance of 1 or more, and from tolerance 0 when the mask selects each
\* channel in all of its bits or in none; under such a mask raising the
\* tolerance never lowers the score of the manual scan.
WholeChannelMask(m) == \A ch \in Channels : m[ch] \in {0, 255}
LargerTolerances == {t \in {1, 2} : t > cfg.per_channel_tolerance}
StepsInRange ==
  /\ ~TotalOverflows(CallRegion, StepOf(cfg.sample_step_x),
                     StepOf(cfg.sample_step_y))
  /\ ~LastIncrementOverflows(CallRegion.left, CallRegion.right,
                             StepOf(cfg.sample_step_x))
  /\ ~LastIncrementOverflows(CallRegion.top, CallRegion.bottom,
                             StepOf(cfg.sample_step_y))

C28_MonotoneWholeChannels ==
  /\ (Compared /\ px_eq
        /\ (cfg.per_channel_tolerance >= 1
              \/ (cfg.per_channel_tolerance = 0
                    /\ WholeChannelMask(cfg.channel_mask)))
      => EqualUnderLarger)
  /\ (ManualScanCall /\ StepsInRange /\ cfg.per_channel_tolerance >= 0
        /\ WholeChannelMask(cfg.channel_mask)
      => \A t \in LargerTolerances :
           ScoreLe(call_sim,
                   CalculateSimilarity(call_a, call_b, call_roi,
                                       WithTolerance(cfg, t))))

C28_Witness ==
  /\ Compared
  /\ cfg.per_channel_tolerance = 3
  /\ cfg.channel_mask = LICE_RGBA(1, 255, 0, 0)
  /\ px1 = LICE_RGBA(0, 0, 0, 0)
  /\ px2 = LICE_RGBA(3, 2, 255, 1)
  /\ px_eq
  /\ ~pixels_equal(px1, px2, WithTolerance(cfg, 2))
  /\ EqualUnderLarger

\* C29: a failed growth allocation corrupts nothing: an Add whose realloc
\* fails leaves the entries, the count and the capacity as they were and
\* stores nothing; and after every sequence of Init, Add and Free with
\* allocations that may fail, count <= capacity, the storage is non-null and
\* large enough whenever capacity > 0, and no Add stores through a null or
\* undersized buffer, in the pass as in the array operations.
ArrayMode == pc = "array"

C29_AllocationFailureSafe ==
  /\ ArrayMode =>
    /\ (arr_op = "add_failed" => arr = arr_old)
    /\ arr.count <= arr.capacity
    /\ Len(arr.items) = arr.count
    /\ (arr.capacity > 0 => arr.buf # NULL /\ arr.buf >= arr.capacity)
    /\ arr_op # "fault"
  /\ fault # "null_store"

\* C30: every pixel the manual scan reads lies inside both rasters.  For
\* every requested region, step and storage orientation the effective region
\* has 0 <= left <= right <= w and 0 <= top <= bottom <= h and covers exactly
\* the pixels of the requested rectangle that lie in the frame; every sampled
\* position (x, y) has 0 <= x < w and 0 <= y < h and is read from physical
\* row y, or h-1-y of a flipped raster, inside the raster's storage; and the
\* loop variables never leave the sample grid.
PixelsOf(r) == (r.left..(r.right - 1)) \X (r.top..(r.bottom - 1))
FramePixels(a) == (0..(getWidth(a) - 1)) \X (0..(getHeight(a) - 1))
Requested(a) ==
  IF call_roi.null THEN FramePixels(a) ELSE PixelsOf(call_roi) \cap FramePixels(a)
PhysicalRow(bm, y) == IF bm.flipped THEN bm.h - 1 - y ELSE y
ReadInside(bm, x, y) ==
  /\ 0 <= x
  /\ x < bm.w
  /\ 0 <= y
  /\ y < bm.h
  /\ ScanOffset(bm, x, y) = PhysicalRow(bm, y) * bm.span + x
  /\ ScanOffset(bm, x, y) + 1 \in DOMAIN bm.bits
CallTotal ==
  SampleCount(CallRegion.right - CallRegion.left, StepOf(cfg.sample_step_x))
    * SampleCount(CallRegion.bottom - CallRegion.top, StepOf(cfg.sample_step_y))
LoopVariableOverflows(c) ==
  IncrementOverflows(c, cfg, CallRegion, StepOf(cfg.sample_step_x),
                     StepOf(cfg.sample_step_y), CallTotal)
ScanStaysOnGrid ==
  CallTotal > 0 =>
    ~LoopVariableOverflows(ScanLoop(call_a, call_b, cfg, CallRegion,
                                    StepOf(cfg.sample_step_x),
                                    StepOf(cfg.sample_step_y), CallTotal, 0, 0))

C30_ReadsInBounds ==
  /\ (SimilarityCall /\ SameSize(call_a, call_b) =>
        /\ 0 <= CallRegion.left
        /\ CallRegion.left <= CallRegion.right
        /\ CallRegion.right <= getWidth(call_a)
        /\ 0 <= CallRegion.top
        /\ CallRegion.top <= CallRegion.bottom
        /\ CallRegion.bottom <= getHeight(call_a)
        /\ PixelsOf(CallRegion) = Requested(call_a))
  /\ (SimilarityCall /\ ReachesScan(call_a, call_b, CallRegion, cfg) =>
        /\ \A p \in CallGrid :
             /\ ReadInside(Bmp(call_a), p[1], p[2])
             /\ ReadInside(Bmp(call_b), p[1], p[2])
        /\ ScanStaysOnGrid)

====
